---- MODULE Spec2Model ----
(***************************************************************************)
(* A model of the compiler of EdsonPinto/Compilador: the lexer of          *)
(* lexer.py, the grammar actions, type checker and tree-walking evaluator  *)
(* of gramatica.py, and the entry point parse_and_interpret_code.          *)
(*                                                                         *)
(* Source text is a sequence of one-character strings.  A Python str that  *)
(* names a variable is the sequence of its characters; a Python float is   *)
(* an exact rational (see the section on runtime values).                  *)
(***************************************************************************)
EXTENDS Integers, Sequences, FiniteSets, TLC

VARIABLES
    code,                  \* the source text handed to the current request
    pc,                    \* where the current request stands
    calls,                 \* number of requests started so far
    lineno,                \* lexer.lexer.lineno, the module-level lexer's line counter
    lexical_errors_list,   \* lexer.py:4
    syntactic_errors_list, \* gramatica.py:7
    semantic_errors_list,  \* gramatica.py:8
    symbol_table,          \* gramatica.py:11
    ast,                   \* local of parse_and_interpret_code
    all_errors,            \* local of parse_and_interpret_code
    evaluated_results,     \* local of parse_and_interpret_code
    stack,                 \* the call stack of evaluate_ast
    retval,                \* the value the last finished evaluate_ast call returned
    prev,                  \* what the previous request returned (history)
    hist,                  \* observations of the current evaluation (history)
    lexpos,                \* lexer.lexpos, used by test_lexer
    tokens_list            \* local of test_lexer

vars == <<code, pc, calls, lineno, lexical_errors_list, syntactic_errors_list,
          semantic_errors_list, symbol_table, ast, all_errors, evaluated_results,
          stack, retval, prev, hist, lexpos, tokens_list>>

(***************************************************************************)
(* Bounds of the model.                                                    *)
(***************************************************************************)
MaxCalls == 2          \* requests made one after the other
MaxN == 5              \* largest loop bound n of the counting programs
MaxLit == 2            \* number literals of the expression families are 0..MaxLit
MaxLexLen == 3         \* longest text handed to test_lexer
RecursionLimit == 16   \* depth of evaluate_ast calls at which Python raises RecursionError
MaxIter == 6           \* passes of one WHILE after which the model stops following it

(***************************************************************************)
(* Generic helpers.                                                        *)
(***************************************************************************)
Abs(a) == IF a < 0 THEN -a ELSE a

RECURSIVE Gcd(_, _)
Gcd(a, b) == IF b = 0 THEN a ELSE Gcd(b, a % b)

RECURSIVE Pow10(_)
Pow10(k) == IF k = 0 THEN 1 ELSE 10 * Pow10(k - 1)

RECURSIVE Flatten(_)
Flatten(ss) == IF ss = <<>> THEN <<>> ELSE Head(ss) \o Flatten(Tail(ss))

\* Python's `x in d` for a dict d modelled as a function.
Has(d, key) == key \in DOMAIN d

\* d[key] = value on a dict.
Put(d, key, value) == [k \in DOMAIN d \cup {key} |-> IF k = key THEN value ELSE d[k]]

EmptyDict == [k \in {} |-> 0]

(***************************************************************************)
(* Runtime values.  None, bool and float/int.  A number is the rational    *)
(* n/d in lowest terms with d > 0; d = 0 encodes the IEEE specials:        *)
(* 1/0 = inf, -1/0 = -inf, 0/0 = nan.  A bool keeps its own tag because    *)
(* isinstance(x, bool) tells it from a number, while arithmetic and        *)
(* comparisons use it as 0 or 1 (bool is a subclass of int).  Rounding,    *)
(* overflow and the sign of zero are not modelled.                         *)
(***************************************************************************)
PyNone == [k |-> "None", n |-> 0, d |-> 0]
PyBool(b) == [k |-> "bool", n |-> IF b THEN 1 ELSE 0, d |-> 1]
PyFalse == PyBool(FALSE)

Rat(n, d) ==
    IF d = 0 THEN [k |-> "num", n |-> IF n > 0 THEN 1 ELSE IF n < 0 THEN -1 ELSE 0, d |-> 0]
    ELSE LET s == IF d < 0 THEN -1 ELSE 1
             g == Gcd(Abs(n), Abs(d))
         IN [k |-> "num", n |-> (s * n) \div g, d |-> (s * d) \div g]

PyNum(i) == Rat(i, 1)
PyInf == Rat(1, 0)

\* A type test that every value passes
AlwaysBool(v) == TRUE

IsNone(v) == v.k = "None"
IsBool(v) == v.k = "bool"                  \* isinstance(v, bool)
IsNumeric(v) == v.k \in {"bool", "num"}    \* isinstance(v, (int, float))
IsNan(v) == v.d = 0 /\ v.n = 0
Truthy(v) == v.n # 0                         \* bool(v) of a bool or a number

\* IEEE addition on the n/d encoding: inf + (-inf) and anything with nan is nan.
NumAdd(a, b) ==
    IF a.d = 0 \/ b.d = 0
    THEN IF IsNan(a) \/ IsNan(b) THEN Rat(0, 0)
         ELSE IF a.d = 0 /\ b.d = 0 THEN (IF a.n = b.n THEN Rat(a.n, 0) ELSE Rat(0, 0))
         ELSE IF a.d = 0 THEN Rat(a.n, 0) ELSE Rat(b.n, 0)
    ELSE Rat(a.n * b.d + b.n * a.d, a.d * b.d)

NumNeg(a) == Rat(-a.n, a.d)
NumSub(a, b) == NumAdd(a, NumNeg(b))

\* IEEE multiplication: inf * 0 is nan.
NumMul(a, b) == Rat(a.n * b.n, a.d * b.d)

\* IEEE division by a non-zero divisor: x / inf = 0, inf / inf = nan.
NumDiv(a, b) ==
    IF b.d = 0
    THEN IF IsNan(b) \/ a.d = 0 THEN Rat(0, 0) ELSE Rat(0, 1)
    ELSE IF a.d = 0 THEN Rat(a.n * b.n, 0)
    ELSE Rat(a.n * b.d, a.d * b.n)

\* a < b on numbers; every ordered comparison with nan is False.
NumLt(a, b) ==
    IF IsNan(a) \/ IsNan(b) THEN FALSE
    ELSE IF a.d = 0 /\ b.d = 0 THEN a.n < b.n
    ELSE IF a.d = 0 THEN a.n < 0
    ELSE IF b.d = 0 THEN b.n > 0
    ELSE a.n * b.d < b.n * a.d

\* a == b on numbers and bools (True == 1.0); nan equals nothing.
NumEq(a, b) == ~IsNan(a) /\ ~IsNan(b) /\ a.n = b.n /\ a.d = b.d

(***************************************************************************)
(* lexer.py: characters and token rules.                                   *)
(***************************************************************************)
LowerCase == <<"a", "b", "c", "d", "e", "f", "g", "h", "i", "j", "k", "l", "m",
               "n", "o", "p", "q", "r", "s", "t", "u", "v", "w", "x", "y", "z">>
UpperCase == <<"A", "B", "C", "D", "E", "F", "G", "H", "I", "J", "K", "L", "M",
               "N", "O", "P", "Q", "R", "S", "T", "U", "V", "W", "X", "Y", "Z">>
Digits == <<"0", "1", "2", "3", "4", "5", "6", "7", "8", "9">>

Range(s) == {s[i] : i \in DOMAIN s}
IndexOf(s, c) == CHOOSE i \in DOMAIN s : s[i] = c

IsIdStart(c) == c \in Range(LowerCase) \cup Range(UpperCase) \cup {"_"}   \* [a-zA-Z_]
IsDigit(c) == c \in Range(Digits)                                          \* \d
IsIdChar(c) == IsIdStart(c) \/ IsDigit(c)                                  \* [a-zA-Z0-9_]
DigitVal(c) == IndexOf(Digits, c) - 1

\* str.upper() on one character and on a string
UpperChar(c) == IF c \in Range(LowerCase) THEN UpperCase[IndexOf(LowerCase, c)] ELSE c
Upper(s) == [i \in DOMAIN s |-> UpperChar(s[i])]

\* reserved.get(value.upper(), 'ID')
reserved(value) ==
    LET u == Upper(value)
    IN IF u = <<"I", "F">> THEN "IF"
       ELSE IF u = <<"E", "L", "S", "E">> THEN "ELSE"
       ELSE IF u = <<"W", "H", "I", "L", "E">> THEN "WHILE"
       ELSE IF u = <<"A", "N", "D">> THEN "AND"
       ELSE IF u = <<"O", "R">> THEN "OR"
       ELSE IF u = <<"N", "O", "T">> THEN "NOT"
       ELSE "ID"

t_ignore == {" ", "\t"}

\* The rules given as functions, in the order of their definition.
FunctionRules == <<"COMMENT", "ID", "NUMBER", "newline">>

\* The rules given as strings, in the order of their definition: the token,
\* the text it matches and the length of the regular expression as written
\* (r'\+' has two characters, r'-' has one).
StringRules == <<
    [name |-> "PLUS",   text |-> <<"+">>,      relen |-> 2],
    [name |-> "MINUS",  text |-> <<"-">>,      relen |-> 1],
    [name |-> "TIMES",  text |-> <<"*">>,      relen |-> 2],
    [name |-> "DIVIDE", text |-> <<"/">>,      relen |-> 1],
    [name |-> "LPAREN", text |-> <<"(">>,      relen |-> 2],
    [name |-> "RPAREN", text |-> <<")">>,      relen |-> 2],
    [name |-> "EQUAL",  text |-> <<"=">>,      relen |-> 1],
    [name |-> "LE",     text |-> <<"<", "=">>, relen |-> 2],
    [name |-> "GE",     text |-> <<">", "=">>, relen |-> 2],
    [name |-> "EQ",     text |-> <<"=", "=">>, relen |-> 2],
    [name |-> "NE",     text |-> <<"!", "=">>, relen |-> 2],
    [name |-> "LT",     text |-> <<"<">>,      relen |-> 1],
    [name |-> "GT",     text |-> <<">">>,      relen |-> 1],
    [name |-> "LBRACE", text |-> <<"{">>,      relen |-> 2],
    [name |-> "RBRACE", text |-> <<"}">>,      relen |-> 2] >>

\* list.sort(key=len(regex), reverse=True): stable, longest expression first.
RECURSIVE SortByRegexLength(_, _)
SortByRegexLength(rules, len) ==
    IF len = 0 THEN <<>>
    ELSE SelectSeq(rules, LAMBDA r : r.relen = len) \o SortByRegexLength(rules, len - 1)

MaxRegexLength(rules) == CHOOSE m \in {rules[i].relen : i \in DOMAIN rules} :
                            \A i \in DOMAIN rules : rules[i].relen <= m

\* The order without the sort: the rules as they are defined.
UnsortedStringRules == StringRules

\* lex.lex(): the string rules of the master expression, in the order tried.
SortedStringRules == SortByRegexLength(StringRules, MaxRegexLength(StringRules))

\* Membership of a character in a character class of the regular expressions.
InClass(c, class) ==
    CASE class = "\\d" -> IsDigit(c)
      [] class = "[a-zA-Z0-9_]" -> IsIdChar(c)
      [] class = "." -> c # "\n"
      [] class = "\\n" -> c = "\n"

\* Number of characters of text[from..] (1-based) that belong to the class.
RECURSIVE RunLength(_, _, _)
RunLength(text, from, class) ==
    IF from <= Len(text) /\ InClass(text[from], class)
    THEN 1 + RunLength(text, from + 1, class) ELSE 0

\* r'\#.*'
MatchCOMMENT(text, i) ==
    IF text[i] = "#" THEN 1 + RunLength(text, i + 1, ".") ELSE 0

\* r'[a-zA-Z_][a-zA-Z0-9_]*'
MatchID(text, i) ==
    IF IsIdStart(text[i]) THEN 1 + RunLength(text, i + 1, "[a-zA-Z0-9_]") ELSE 0

\* r'\d+(\.\d*)?|\.\d+'
MatchNUMBER(text, i) ==
    LET whole == RunLength(text, i, "\\d")
        dotAt == i + whole
        frac == RunLength(text, dotAt + 1, "\\d")
    IN IF whole > 0
       THEN IF dotAt <= Len(text) /\ text[dotAt] = "." THEN whole + 1 + frac ELSE whole
       ELSE IF text[i] = "." /\ frac > 0 THEN 1 + frac ELSE 0

\* r'\n+'
MatchNewline(text, i) == RunLength(text, i, "\\n")

MatchText(text, i, lit) ==
    IF i + Len(lit) - 1 <= Len(text) /\ SubSeq(text, i, i + Len(lit) - 1) = lit
    THEN Len(lit) ELSE 0

MatchFunctionRule(name, text, i) ==
    CASE name = "COMMENT" -> MatchCOMMENT(text, i)
      [] name = "ID" -> MatchID(text, i)
      [] name = "NUMBER" -> MatchNUMBER(text, i)
      [] name = "newline" -> MatchNewline(text, i)

\* The master expression is an alternation: the first rule that matches wins.
RECURSIVE FirstString(_, _, _)
FirstString(rules, text, i) ==
    IF rules = <<>> THEN [name |-> "", len |-> 0]
    ELSE IF MatchText(text, i, Head(rules).text) > 0
         THEN [name |-> Head(rules).name, len |-> Len(Head(rules).text)]
         ELSE FirstString(Tail(rules), text, i)

RECURSIVE FirstFunction(_, _, _)
FirstFunction(names, text, i) ==
    IF names = <<>> THEN [name |-> "", len |-> 0]
    ELSE IF MatchFunctionRule(Head(names), text, i) > 0
         THEN [name |-> Head(names), len |-> MatchFunctionRule(Head(names), text, i)]
         ELSE FirstFunction(Tail(names), text, i)

\* The rule that matches at the 1-based index i: functions first, then strings.
Alternation(first, second) == IF first.len > 0 THEN first ELSE second

MasterMatch(text, i) ==
    Alternation(FirstFunction(FunctionRules, text, i), FirstString(SortedStringRules, text, i))

\* int(digits) of a run of digit characters
RECURSIVE DigitsValue(_)
DigitsValue(ds) ==
    IF ds = <<>> THEN 0 ELSE 10 * DigitsValue(SubSeq(ds, 1, Len(ds) - 1)) + DigitVal(ds[Len(ds)])

\* float(t.value) of a lexeme matched by t_NUMBER
float(lexeme) ==
    LET whole == RunLength(lexeme, 1, "\\d")
        frac == IF whole < Len(lexeme) THEN SubSeq(lexeme, whole + 2, Len(lexeme)) ELSE <<>>
    IN Rat(DigitsValue(SubSeq(lexeme, 1, whole)) * Pow10(Len(frac)) + DigitsValue(frac),
           Pow10(Len(frac)))

(***************************************************************************)
(* Error records.  A message is the text of its f-string template, the     *)
(* strings substituted into it and the numbers substituted into it.  None  *)
(* as a line or column is NoPos.  The accented letters of the error types  *)
(* are written without accents.                                            *)
(***************************************************************************)
NoPos == -1

Msg(text, strs, nums) == [text |-> text, strs |-> strs, nums |-> nums]

ErrorRecord(type, message, line, column) ==
    [type |-> type, message |-> message, line |-> line, column |-> column]

(***************************************************************************)
(* lexer.py: the lexer object.  A lexer state lx holds lexpos (0-based, as *)
(* in Python), lineno and the module's lexical_errors_list.                *)
(***************************************************************************)
NoToken == [type |-> "None", value |-> <<>>, lineno |-> 0, lexpos |-> 0]
EndToken == [type |-> "$end", value |-> <<>>, lineno |-> 0, lexpos |-> 0]

\* str.rfind(ch, 0, end): the largest 0-based index below end holding ch, or -1
RECURSIVE rfind(_, _, _)
rfind(text, ch, end) ==
    IF end <= 0 THEN -1
    ELSE IF text[end] = ch THEN end - 1
    ELSE rfind(text, ch, end - 1)

\* An error handler that records nothing
SilentError(text, lx) == lx.errs

\* t_error(t), up to the skip
t_error(text, lx) ==
    LET line_start_pos == rfind(text, "\n", lx.lexpos)
        column == IF line_start_pos # -1 THEN lx.lexpos - line_start_pos ELSE lx.lexpos
    IN Append(lx.errs,
              ErrorRecord("Lexico", Msg("Caracter ilegal", << <<text[lx.lexpos + 1]>> >>, <<>>),
                          lx.lineno, column))

\* The token a matched rule returns (None for t_COMMENT and t_newline).
MakeToken(text, lx, m) ==
    LET lexeme == SubSeq(text, lx.lexpos + 1, lx.lexpos + m.len)
    IN [type |-> IF m.name = "ID" THEN reserved(lexeme) ELSE m.name,
        value |-> IF m.name = "NUMBER" THEN float(lexeme) ELSE lexeme,
        lineno |-> lx.lineno, lexpos |-> lx.lexpos]

\* lexer.token(): the next token, or NoToken at the end of the input.
RECURSIVE token(_, _)

\* The body of the loop of lexer.token() once the master expression has
\* been tried at lexpos: m is the rule that matched, of length 0 if none did.
Matched(text, lx, m) ==
    IF m.len = 0
    THEN \* t_error: record the character, t.lexer.skip(1)
         token(text, [lx EXCEPT !.errs = t_error(text, lx), !.lexpos = @ + 1])
    ELSE IF m.name = "COMMENT"
    THEN token(text, [lx EXCEPT !.lexpos = @ + m.len])
    ELSE IF m.name = "newline"
    THEN \* t_newline: t.lexer.lineno += len(t.value)
         token(text, [lx EXCEPT !.lexpos = @ + m.len, !.lineno = @ + m.len])
    ELSE [tok |-> MakeToken(text, lx, m), lx |-> [lx EXCEPT !.lexpos = @ + m.len]]

token(text, lx) ==
    IF lx.lexpos >= Len(text)
    THEN [tok |-> NoToken, lx |-> [lx EXCEPT !.lexpos = @ + 1]]
    ELSE IF text[lx.lexpos + 1] \in t_ignore
    THEN token(text, [lx EXCEPT !.lexpos = @ + 1])
    ELSE Matched(text, lx, MasterMatch(text, lx.lexpos + 1))

(***************************************************************************)
(* gramatica.py: AST nodes.  A Python tuple ('+', l, r) is a record whose  *)
(* field t is the tuple's first element.                                   *)
(***************************************************************************)
NoneNode == [t |-> "None"]
Number(v) == [t |-> "number", value |-> v]
Id(name) == [t |-> "id", name |-> name]
BinOp(op, l, r) == [t |-> op, left |-> l, right |-> r]
Not(e) == [t |-> "NOT", expr |-> e]
UMinus(e) == [t |-> "uminus", expr |-> e]
Assign(name, e) == [t |-> "assign", name |-> name, expr |-> e]
If(c, b) == [t |-> "if", cond |-> c, thenb |-> b]
IfElse(c, b1, b2) == [t |-> "if_else", cond |-> c, thenb |-> b1, elseb |-> b2]
While(c, b) == [t |-> "while", cond |-> c, body |-> b]
ErrorBin(op, l, r, why) == [t |-> "error", op |-> op, left |-> l, right |-> r, why |-> why]
ErrorNot(e, why) == [t |-> "error", op |-> "NOT", expr |-> e, why |-> why]

ArithOps == {"+", "-", "*", "/"}
CompareOps == {"<", "<=", ">", ">=", "==", "!="}
LogicOps == {"AND", "OR"}

\* The Python string of an operator token's value.  A keyword operator
\* written with a lower-case letter keeps its spelling, which equals none
\* of the strings the code compares it with: it is named by its lower case.
OperatorString(lexeme) ==
    CASE lexeme = <<"+">> -> "+"   [] lexeme = <<"-">> -> "-"
      [] lexeme = <<"*">> -> "*"   [] lexeme = <<"/">> -> "/"
      [] lexeme = <<"<">> -> "<"   [] lexeme = <<"<", "=">> -> "<="
      [] lexeme = <<">">> -> ">"   [] lexeme = <<">", "=">> -> ">="
      [] lexeme = <<"=", "=">> -> "=="  [] lexeme = <<"!", "=">> -> "!="
      [] lexeme = <<"A", "N", "D">> -> "AND"
      [] lexeme = <<"O", "R">> -> "OR"
      [] OTHER -> IF Len(lexeme) = 3 THEN "and" ELSE "or"

(***************************************************************************)
(* gramatica.py: type helpers.                                             *)
(***************************************************************************)
SymbolEntry(value_ast, evaluated_value, type) ==
    [value_ast |-> value_ast, evaluated_value |-> evaluated_value, type |-> type]

RECURSIVE get_node_type(_, _)
get_node_type(node, current_symbol_table) ==
    CASE node.t = "number" -> "float"
      [] node.t = "id" ->
            IF Has(current_symbol_table, node.name)
            THEN current_symbol_table[node.name].type
            ELSE "unknown"
      [] node.t \in ArithOps ->
            IF get_node_type(node.left, current_symbol_table) = "float"
               /\ get_node_type(node.right, current_symbol_table) = "float"
            THEN "float" ELSE "error"
      [] node.t \in CompareOps -> "boolean"
      [] node.t \in {"AND", "OR", "NOT"} -> "boolean"
      [] node.t = "uminus" -> get_node_type(node.expr, current_symbol_table)
      [] OTHER -> "unknown"

\* A check that lets AND and OR take operands of any type
LenientType(op, type1, type2) ==
    IF type1 = "unknown" \/ type2 = "unknown" THEN "unknown"
    ELSE IF op \in ArithOps
    THEN IF type1 = "float" /\ type2 = "float" THEN "float" ELSE "error"
    ELSE IF op \in CompareOps
    THEN IF (type1 = "float" /\ type2 = "float")
            \/ (type1 = "boolean" /\ type2 = "boolean" /\ op \in {"==", "!="})
         THEN "boolean" ELSE "error"
    ELSE "boolean"

\* The type check_type_compatibility returns.
CompatibleType(op, type1, type2) ==
    IF type1 = "unknown" \/ type2 = "unknown" THEN "unknown"
    ELSE IF op \in ArithOps
    THEN IF type1 = "float" /\ type2 = "float" THEN "float" ELSE "error"
    ELSE IF op \in CompareOps
    THEN IF (type1 = "float" /\ type2 = "float")
            \/ (type1 = "boolean" /\ type2 = "boolean" /\ op \in {"==", "!="})
         THEN "boolean" ELSE "error"
    ELSE IF op \in LogicOps
    THEN IF type1 = "boolean" /\ type2 = "boolean" THEN "boolean" ELSE "error"
    ELSE "unknown"

TypeErrorText(op) ==
    IF op \in ArithOps THEN "Error de tipo: Operacion no definida para"
    ELSE IF op \in CompareOps THEN "Error de tipo: Comparacion no definida para"
    ELSE "Error de tipo: Operacion logica no definida para"

\* An add_semantic_error that records nothing
DropError(errs, message, line, column) == errs

add_semantic_error(errs, message, line, column) ==
    Append(errs, ErrorRecord("Semantico", message, line, column))

\* check_type_compatibility: the type, and semantic_errors_list afterwards.
check_type_compatibility(op, type1, type2, p_lineno, p_lexpos, errs) ==
    LET result == CompatibleType(op, type1, type2)
    IN [type |-> result,
        errs |-> IF result = "error"
                 THEN add_semantic_error(errs,
                          Msg(TypeErrorText(op), << <<op>>, <<type1>>, <<type2>> >>, <<>>),
                          p_lineno, p_lexpos)
                 ELSE errs]

(***************************************************************************)
(* gramatica.py: the grammar actions.  p is the slice of the production:   *)
(* p[i] is the i-th symbol of the right-hand side, a record with the       *)
(* symbol's type, value, lineno and lexpos (p.lineno(i), p.lexpos(i)).     *)
(* Each action yields p[0] and the symbol table and semantic error list    *)
(* it leaves behind.                                                       *)
(***************************************************************************)
Out(p0, st, errs) == [p0 |-> p0, symbol_table |-> st, errs |-> errs]

p_program(p, st, errs) == Out(p[1].value, st, errs)

p_statements_recursive(p, st, errs) == Out(Append(p[1].value, p[2].value), st, errs)

p_statements_single(p, st, errs) == Out(<<p[1].value>>, st, errs)

\* A p_statement_assign that leaves the symbol table as it is
p_statement_assign_forgetful(p, st, errs) ==
    Out(Assign(p[1].value, p[3].value), st, errs)

p_statement_assign(p, st, errs) ==
    LET var_name == p[1].value
        value_expr_ast == p[3].value
        inferred_type == get_node_type(value_expr_ast, st)
    IN Out(Assign(var_name, value_expr_ast),
           Put(st, var_name, SymbolEntry(value_expr_ast, PyNone, inferred_type)),
           errs)

p_statement_expression(p, st, errs) == Out(p[1].value, st, errs)

ConditionErrors(keyword, condition_type, p, errs) ==
    IF condition_type # "boolean" /\ condition_type # "unknown"
    THEN add_semantic_error(errs,
             Msg("Error de tipo: La condicion debe ser booleana, se encontro",
                 << <<keyword>>, <<condition_type>> >>, <<>>),
             p[1].lineno, p[1].lexpos)
    ELSE errs

p_statement_if(p, st, errs) ==
    LET condition_expr == p[3].value
        condition_type == get_node_type(condition_expr, st)
        errs2 == ConditionErrors("IF", condition_type, p, errs)
    IN IF Len(p) = 5
       THEN Out(If(condition_expr, p[5].value), st, errs2)
       ELSE Out(IfElse(condition_expr, p[5].value, p[7].value), st, errs2)

p_statement_while(p, st, errs) ==
    LET condition_expr == p[3].value
        condition_type == get_node_type(condition_expr, st)
    IN Out(While(condition_expr, p[5].value), st,
           ConditionErrors("WHILE", condition_type, p, errs))

p_block(p, st, errs) == Out(p[2].value, st, errs)

\* p_expression_binop, p_expression_comparison and p_expression_logical:
\* the same body, with their own text in the error node.
BinaryAction(p, st, errs, why) ==
    LET left_expr_ast == p[1].value
        operator == OperatorString(p[2].value)
        right_expr_ast == p[3].value
        left_type == get_node_type(left_expr_ast, st)
        right_type == get_node_type(right_expr_ast, st)
        result == check_type_compatibility(operator, left_type, right_type,
                                           p[2].lineno, p[2].lexpos, errs)
    IN IF result.type = "error"
       THEN Out(ErrorBin(operator, left_expr_ast, right_expr_ast, why), st, result.errs)
       ELSE Out(BinOp(operator, left_expr_ast, right_expr_ast), st, result.errs)

p_expression_binop(p, st, errs) == BinaryAction(p, st, errs, "Tipo incompatible")

p_expression_comparison(p, st, errs) ==
    BinaryAction(p, st, errs, "Tipo incompatible en comparacion")

p_expression_logical(p, st, errs) ==
    BinaryAction(p, st, errs, "Tipo incompatible en operacion logica")

p_expression_not(p, st, errs) ==
    LET expr_ast == p[2].value
        expr_type == get_node_type(expr_ast, st)
    IN IF expr_type # "boolean" /\ expr_type # "unknown"
       THEN Out(ErrorNot(expr_ast, "Tipo incompatible para NOT"), st,
                add_semantic_error(errs,
                    Msg("Error de tipo: Operador 'NOT' solo aplica a booleanos, se encontro",
                        << <<expr_type>> >>, <<>>),
                    p[1].lineno, p[1].lexpos))
       ELSE Out(Not(expr_ast), st, errs)

p_expression_uminus(p, st, errs) == Out(UMinus(p[2].value), st, errs)

p_expression_group(p, st, errs) == Out(p[2].value, st, errs)

p_expression_number(p, st, errs) == Out(Number(p[1].value), st, errs)

PlaceholderEntry == [value_ast |-> NoneNode, evaluated_value |-> PyNone, type |-> "unknown_error"]

\* A p_expression_id that reports the name and inserts no placeholder
p_expression_id_forgetful(p, st, errs) ==
    IF ~Has(st, p[1].value)
    THEN Out(Id(p[1].value), st,
             add_semantic_error(errs, Msg("Variable no declarada.", <<p[1].value>>, <<>>),
                                p[1].lineno, p[1].lexpos))
    ELSE Out(Id(p[1].value), st, errs)

p_expression_id(p, st, errs) ==
    LET var_name == p[1].value
    IN IF ~Has(st, var_name)
       THEN Out(Id(var_name), Put(st, var_name, PlaceholderEntry),
                add_semantic_error(errs, Msg("Variable no declarada.", <<var_name>>, <<>>),
                                   p[1].lineno, p[1].lexpos))
       ELSE Out(Id(var_name), st, errs)

\* p_error(t): the syntactic error appended; t is the offending token or
\* EndToken for Python's None.
p_error(text, t, syn) ==
    IF t.type # "$end"
    THEN LET line_start_pos == rfind(text, "\n", t.lexpos)
             column == IF line_start_pos # -1 THEN t.lexpos - line_start_pos ELSE t.lexpos
             shown == IF t.type = "NUMBER" THEN Msg("Error sintactico cerca de", <<>>, <<t.value>>)
                      ELSE Msg("Error sintactico cerca de", <<t.value>>, <<>>)
         IN Append(syn, ErrorRecord("Sintactico", shown, t.lineno, column))
    ELSE Append(syn, ErrorRecord("Sintactico",
                    Msg("Error sintactico: Fin de archivo inesperado o incompleto.", <<>>, <<>>),
                    NoPos, NoPos))

(***************************************************************************)
(* gramatica.py: the parser yacc.yacc() builds from the productions of the *)
(* p_ functions and the precedence table.  The LALR automaton's state is a *)
(* function of the symbols on the stack; LRAction gives, for the stack and *)
(* the lookahead, the entry of the generated action table.                 *)
(***************************************************************************)
precedence == <<
    [assoc |-> "left",  tokens |-> {"OR"}],
    [assoc |-> "left",  tokens |-> {"AND"}],
    [assoc |-> "right", tokens |-> {"NOT"}],
    [assoc |-> "left",  tokens |-> {"EQ", "NE"}],
    [assoc |-> "left",  tokens |-> {"LT", "LE", "GT", "GE"}],
    [assoc |-> "left",  tokens |-> {"PLUS", "MINUS"}],
    [assoc |-> "left",  tokens |-> {"TIMES", "DIVIDE"}],
    [assoc |-> "right", tokens |-> {"UMINUS"}] >>

\* Precedence.get(term, ('right', 0))
PrecedenceOf(term) ==
    IF \E level \in DOMAIN precedence : term \in precedence[level].tokens
    THEN LET level == CHOOSE l \in DOMAIN precedence : term \in precedence[l].tokens
         IN [assoc |-> precedence[level].assoc, level |-> level]
    ELSE [assoc |-> "right", level |-> 0]

\* The operators of the productions expression : expression OP expression.
BinaryOperators == {"PLUS", "MINUS", "TIMES", "DIVIDE",
                    "LT", "LE", "GT", "GE", "EQ", "NE", "AND", "OR"}

\* The tokens an expression, and a statement, can begin with.
ExpressionStart == {"ID", "LPAREN", "MINUS", "NOT", "NUMBER"}
StatementStart == ExpressionStart \cup {"IF", "WHILE"}

\* The lookaheads on which a finished statement, and a finished expression,
\* is reduced.
FollowStatement == StatementStart \cup {"$end", "RBRACE"}
FollowExpression == BinaryOperators \cup FollowStatement \cup {"RPAREN"}

Shift == [kind |-> "shift", rule |-> ""]
Accept == [kind |-> "accept", rule |-> ""]
SyntaxError == [kind |-> "error", rule |-> ""]
ReduceBy(rule) == [kind |-> "reduce", rule |-> rule]

ShiftIf(cond) == IF cond THEN Shift ELSE SyntaxError
ReduceIf(cond, rule) == IF cond THEN ReduceBy(rule) ELSE SyntaxError

\* A resolution that ignores the precedence table
AlwaysReduce(production, la) == "reduce"

\* yacc's answer to a shift/reduce conflict: the production is reduced when
\* the lookahead's level is below the production's, or equal to it with a
\* left-associative production; otherwise the lookahead is shifted.
ResolveConflict(production, la) ==
    LET s == PrecedenceOf(la)
        r == PrecedenceOf(production)
    IN IF s.level < r.level \/ (s.level = r.level /\ r.assoc = "left")
       THEN "reduce" ELSE "shift"

\* An operator production is complete on top of the stack.
OperatorHandle(rule, production, la) ==
    IF la \in BinaryOperators
    THEN IF ResolveConflict(production, la) = "reduce" THEN ReduceBy(rule) ELSE Shift
    ELSE ReduceIf(la \in FollowExpression, rule)

\* The production an operator token belongs to.
BinaryRule(op) ==
    IF op \in {"PLUS", "MINUS", "TIMES", "DIVIDE"} THEN "expression_binop"
    ELSE IF op \in {"AND", "OR"} THEN "expression_logical"
    ELSE "expression_comparison"

\* types: the types of the symbols on the stack, bottom first.
LRAction(types, la) ==
    LET n == Len(types)
        T(k) == IF k <= n THEN types[n + 1 - k] ELSE ""   \* k-th symbol from the top
        AtStatementStart(k) == T(k) \in {"$end", "statements", "LBRACE"}
    IN CASE T(1) = "$end" -> ShiftIf(la \in StatementStart)
         [] T(1) = "program" -> IF la = "$end" THEN Accept ELSE SyntaxError
         [] T(1) = "statements" ->
                IF T(2) = "LBRACE" THEN ShiftIf(la \in StatementStart \cup {"RBRACE"})
                ELSE IF la = "$end" THEN ReduceBy("program")
                ELSE ShiftIf(la \in StatementStart)
         [] T(1) = "statement" ->
                ReduceIf(la \in FollowStatement,
                         IF T(2) = "statements" THEN "statements_recursive"
                         ELSE "statements_single")
         [] T(1) = "block" ->
                IF T(2) = "ELSE" THEN ReduceIf(la \in FollowStatement, "statement_if")
                ELSE IF T(5) = "WHILE" THEN ReduceIf(la \in FollowStatement, "statement_while")
                ELSE IF la = "ELSE" THEN Shift
                ELSE ReduceIf(la \in FollowStatement, "statement_if")
         [] T(1) \in {"IF", "WHILE"} -> ShiftIf(la = "LPAREN")
         [] T(1) = "ELSE" -> ShiftIf(la = "LBRACE")
         [] T(1) = "LBRACE" -> ShiftIf(la \in StatementStart)
         [] T(1) = "RBRACE" -> ReduceIf(la \in FollowStatement \cup {"ELSE"}, "block")
         [] T(1) = "NUMBER" -> ReduceIf(la \in FollowExpression, "expression_number")
         [] T(1) = "ID" ->
                IF AtStatementStart(2)
                THEN IF la = "EQUAL" THEN Shift
                     ELSE ReduceIf(la \in FollowExpression \ {"RPAREN"}, "expression_id")
                ELSE ReduceIf(la \in FollowExpression, "expression_id")
         [] T(1) = "RPAREN" ->
                IF T(4) \in {"IF", "WHILE"} THEN ShiftIf(la = "LBRACE")
                ELSE ReduceIf(la \in FollowExpression, "expression_group")
         [] T(1) \in {"LPAREN", "EQUAL", "NOT"} \cup BinaryOperators ->
                ShiftIf(la \in ExpressionStart)
         [] T(1) = "expression" ->
                IF T(2) = "LPAREN" THEN ShiftIf(la \in BinaryOperators \cup {"RPAREN"})
                ELSE IF T(2) = "EQUAL" \/ AtStatementStart(2)
                THEN IF la \in BinaryOperators THEN Shift
                     ELSE ReduceIf(la \in FollowStatement,
                                   IF T(2) = "EQUAL" THEN "statement_assign"
                                   ELSE "statement_expression")
                ELSE IF T(2) = "NOT" THEN OperatorHandle("expression_not", "NOT", la)
                ELSE IF T(2) = "MINUS" /\ T(3) # "expression"
                THEN OperatorHandle("expression_uminus", "UMINUS", la)
                ELSE OperatorHandle(BinaryRule(T(2)), T(2), la)

\* Number of symbols on the right-hand side of the production reduced.
RuleLength(rule, types) ==
    CASE rule \in {"program", "statements_single", "statement_expression",
                   "expression_number", "expression_id"} -> 1
      [] rule \in {"statements_recursive", "expression_not", "expression_uminus"} -> 2
      [] rule \in {"statement_assign", "block", "expression_binop", "expression_comparison",
                   "expression_logical", "expression_group"} -> 3
      [] rule = "statement_while" -> 5
      [] rule = "statement_if" -> IF types[Len(types) - 1] = "ELSE" THEN 7 ELSE 5

RuleHead(rule) ==
    CASE rule = "program" -> "program"
      [] rule \in {"statements_recursive", "statements_single"} -> "statements"
      [] rule \in {"statement_assign", "statement_expression", "statement_if",
                   "statement_while"} -> "statement"
      [] rule = "block" -> "block"
      [] OTHER -> "expression"

RunAction(rule, p, st, errs) ==
    CASE rule = "program" -> p_program(p, st, errs)
      [] rule = "statements_recursive" -> p_statements_recursive(p, st, errs)
      [] rule = "statements_single" -> p_statements_single(p, st, errs)
      [] rule = "statement_assign" -> p_statement_assign(p, st, errs)
      [] rule = "statement_expression" -> p_statement_expression(p, st, errs)
      [] rule = "statement_if" -> p_statement_if(p, st, errs)
      [] rule = "statement_while" -> p_statement_while(p, st, errs)
      [] rule = "block" -> p_block(p, st, errs)
      [] rule = "expression_binop" -> p_expression_binop(p, st, errs)
      [] rule = "expression_comparison" -> p_expression_comparison(p, st, errs)
      [] rule = "expression_logical" -> p_expression_logical(p, st, errs)
      [] rule = "expression_not" -> p_expression_not(p, st, errs)
      [] rule = "expression_uminus" -> p_expression_uminus(p, st, errs)
      [] rule = "expression_group" -> p_expression_group(p, st, errs)
      [] rule = "expression_number" -> p_expression_number(p, st, errs)
      [] rule = "expression_id" -> p_expression_id(p, st, errs)

(***************************************************************************)
(* parser.parse(code, lexer=lexer.lexer): the LR driver.  A configuration  *)
(* c holds the symbol stack, the lookahead, the lexer state, the count of  *)
(* shifts still needed before errors are reported again, and the module    *)
(* state the grammar actions work on.                                      *)
(***************************************************************************)
error_count == 3

Symbol(type, value) == [type |-> type, value |-> value, lineno |-> 0, lexpos |-> 0]

TypesOf(symstack) == [i \in DOMAIN symstack |-> symstack[i].type]

\* The symbol stack after an error: every symbol is popped, down to $end.
EmptyStack == <<Symbol("$end", <<>>)>>

InitialConfiguration(line, st, lex, syn, sem) ==
    [symstack |-> EmptyStack, lookahead |-> NoToken,
     lx |-> [lexpos |-> 0, lineno |-> line, errs |-> lex],
     errorcount |-> 0, symbol_table |-> st, syn |-> syn, sem |-> sem,
     none |-> FALSE, result |-> <<>>]

\* The configuration once lexer.token() has returned r.
Fetched(c, r) ==
    [c EXCEPT !.lx = r.lx,
              !.lookahead = IF r.tok.type = "None" THEN EndToken ELSE r.tok]

\* The configuration with a lookahead: lexer.token() is called when there is none.
WithLookahead(text, c) ==
    IF c.lookahead.type # "None" THEN c ELSE Fetched(c, token(text, c.lx))

DoShift(c) ==
    [c EXCEPT !.symstack = Append(@, c.lookahead),
              !.lookahead = NoToken,
              !.errorcount = IF @ > 0 THEN @ - 1 ELSE @]

\* The configuration once the action of a rule of plen symbols has run.
Reduced(c, rule, plen, out) ==
    [c EXCEPT !.symstack = Append(SubSeq(@, 1, Len(@) - plen), Symbol(RuleHead(rule), out.p0)),
              !.symbol_table = out.symbol_table,
              !.sem = out.errs]

\* The action of the rule runs on p, the plen symbols on top of the stack.
ReduceTop(c, rule, plen) ==
    Reduced(c, rule, plen,
            RunAction(rule, SubSeq(c.symstack, Len(c.symstack) - plen + 1, Len(c.symstack)),
                      c.symbol_table, c.sem))

DoReduce(c, rule) == ReduceTop(c, rule, RuleLength(rule, TypesOf(c.symstack)))

\* No action for the lookahead.  p_error is called unless an error was
\* reported fewer than error_count shifts ago.  At the end of the input the
\* parse returns None; otherwise, the grammar having no error production,
\* the stack is emptied, the offending token is dropped and parsing resumes.
DoError(text, c) ==
    [c EXCEPT !.syn = IF c.errorcount = 0 THEN p_error(text, c.lookahead, @) ELSE @,
              !.errorcount = error_count,
              !.none = (c.lookahead.type = "$end"),
              !.result = IF c.lookahead.type = "$end" THEN <<>> ELSE @,
              !.symstack = IF c.lookahead.type = "$end" THEN @ ELSE EmptyStack,
              !.lookahead = IF c.lookahead.type = "$end" THEN @ ELSE NoToken]

RECURSIVE LRParse(_, _)

\* One turn of the driver's loop: c has its lookahead and act is the
\* action the table gives for the state on top of the stack.
LRTurn(text, c, act) ==
    CASE act.kind = "shift" -> LRParse(text, DoShift(c))
      [] act.kind = "reduce" -> LRParse(text, DoReduce(c, act.rule))
      [] act.kind = "accept" -> [c EXCEPT !.result = c.symstack[Len(c.symstack)].value]
      [] act.kind = "error" -> LRParse(text, DoError(text, c))

LRLookup(text, c) == LRTurn(text, c, LRAction(TypesOf(c.symstack), c.lookahead.type))

LRParse(text, c0) == IF c0.none THEN c0 ELSE LRLookup(text, WithLookahead(text, c0))

\* The AST returned: a list of statements, or None.
Ast(stmts) == [none |-> FALSE, stmts |-> stmts]
NoneAst == [none |-> TRUE, stmts |-> <<>>]

(***************************************************************************)
(* gramatica.py: evaluate_ast, as the machine that runs its recursion.     *)
(* The stack holds one frame per call in progress: the node, the place the *)
(* call has reached (at), its locals (v: left / condition_result, stmts:   *)
(* block_statements, i: the index of the next statement, last:             *)
(* last_result).  A machine state m holds the stack, the value the last    *)
(* finished call returned, the symbol table, semantic_errors_list, the     *)
(* exception raised if any, and the history.                               *)
(***************************************************************************)
ListNode == [t |-> "list"]

Frame(node, stmts) ==
    [node |-> node, at |-> "start", v |-> PyNone, stmts |-> stmts, i |-> 1, last |-> PyNone]

Top(m) == m.stack[Len(m.stack)]
Popped(m) == SubSeq(m.stack, 1, Len(m.stack) - 1)

\* return value
Return(m, value) == [m EXCEPT !.stack = Popped(m), !.retval = value]

\* add_semantic_error(..., None, None) followed by return value
ReturnErrorAbout(m, text, strs, value) ==
    [m EXCEPT !.stack = Popped(m), !.retval = value,
              !.errs = add_semantic_error(@, Msg(text, strs, <<>>), NoPos, NoPos)]

ReturnError(m, text, value) == ReturnErrorAbout(m, text, <<>>, value)

\* evaluate_ast(child, current_symbol_table), the caller resuming at `at`
\* with its locals as in frame.  Python raises RecursionError when the
\* calls are nested too deep.
Call(m, frame, at, child) ==
    IF Len(m.stack) >= RecursionLimit
    THEN [m EXCEPT !.exc = "RecursionError"]
    ELSE [m EXCEPT !.stack = Append(Append(Popped(m), [frame EXCEPT !.at = at]),
                                    Frame(child, <<>>)),
                   !.hist.calls = @ + 1]

\* A comparison with zero that never finds it
NeverZero(v) == FALSE

PyEqualsZero(v) == v.n = 0 /\ v.d # 0      \* right == 0

Arithmetic(op, left, right) ==
    CASE op = "+" -> NumAdd(left, right)
      [] op = "-" -> NumSub(left, right)
      [] op = "*" -> NumMul(left, right)
      [] op = "/" -> NumDiv(left, right)

Comparison(op, left, right) ==
    CASE op = "<" -> NumLt(left, right)
      [] op = "<=" -> NumLt(left, right) \/ NumEq(left, right)
      [] op = ">" -> NumLt(right, left)
      [] op = ">=" -> NumLt(right, left) \/ NumEq(left, right)
      [] op = "==" -> NumEq(left, right)
      [] op = "!=" -> ~NumEq(left, right)

StepNumber(m) == Return(m, Top(m).node.value)

StepId(m) ==
    LET f == Top(m)
        var_name == f.node.name
    IN IF f.at = "start"
       THEN IF Has(m.st, var_name)
            THEN IF ~IsNone(m.st[var_name].evaluated_value)
                 THEN Return(m, m.st[var_name].evaluated_value)
                 ELSE IF m.st[var_name].value_ast.t # "None"
                 THEN Call(m, f, "value", m.st[var_name].value_ast)
                 ELSE Return(m, PyNone)
            ELSE ReturnError(m, "Variable no definida durante la ejecucion.", PyNone)
       ELSE \* at = "value": the defining expression has been evaluated
            [Return(m, m.retval) EXCEPT !.st[var_name].evaluated_value = m.retval]

StepArithmetic(m) ==
    LET f == Top(m)
        op == f.node.t
    IN CASE f.at = "start" -> Call(m, f, "left", f.node.left)
         [] f.at = "left" -> Call(m, [f EXCEPT !.v = m.retval], "right", f.node.right)
         [] f.at = "right" ->
                LET left == f.v
                    right == m.retval
                IN IF IsNone(left) \/ IsNone(right) THEN Return(m, PyNone)
                   ELSE IF ~IsNumeric(left) \/ ~IsNumeric(right)
                   THEN ReturnErrorAbout(m, "Error de ejecucion: Operacion con tipos no numericos.",
                                         << <<op>> >>, PyNone)
                   ELSE IF op = "/" /\ PyEqualsZero(right)
                   THEN ReturnError(m, "Error de ejecucion: Division por cero.", PyInf)
                   ELSE Return(m, Arithmetic(op, left, right))

StepComparison(m) ==
    LET f == Top(m)
    IN CASE f.at = "start" -> Call(m, f, "left", f.node.left)
         [] f.at = "left" -> Call(m, [f EXCEPT !.v = m.retval], "right", f.node.right)
         [] f.at = "right" ->
                IF IsNone(f.v) \/ IsNone(m.retval) THEN Return(m, PyNone)
                ELSE Return(m, PyBool(Comparison(f.node.t, f.v, m.retval)))

\* AND and OR evaluating both operands whatever the left one is
LogicalEager(m, name, shortOn) ==
    LET f == Top(m)
    IN CASE f.at = "start" -> Call(m, f, "left", f.node.left)
         [] f.at = "left" ->
                IF IsNone(m.retval) THEN Return(m, PyNone)
                ELSE Call(m, [f EXCEPT !.v = m.retval], "right", f.node.right)
         [] f.at = "right" ->
                IF IsNone(m.retval) THEN Return(m, PyNone)
                ELSE Return(m, IF shortOn THEN PyBool(Truthy(f.v) \/ Truthy(m.retval))
                               ELSE PyBool(Truthy(f.v) /\ Truthy(m.retval)))

\* AND (shortOn = FALSE) and OR (shortOn = TRUE)
Logical(m, name, shortOn) ==
    LET f == Top(m)
    IN CASE f.at = "start" -> Call(m, f, "left", f.node.left)
         [] f.at = "left" ->
                LET left == m.retval
                IN IF IsNone(left) THEN Return(m, PyNone)
                   ELSE IF ~IsBool(left)
                   THEN ReturnErrorAbout(m, "Error de ejecucion: Operacion con operando izquierdo no booleano.",
                                         << <<name>> >>, PyFalse)
                   ELSE IF Truthy(left) = shortOn THEN Return(m, PyBool(shortOn))
                   ELSE Call(m, [f EXCEPT !.v = left], "right", f.node.right)
         [] f.at = "right" ->
                LET right == m.retval
                IN IF IsNone(right) THEN Return(m, PyNone)
                   ELSE IF ~IsBool(right)
                   THEN ReturnErrorAbout(m, "Error de ejecucion: Operacion con operando derecho no booleano.",
                                         << <<name>> >>, PyFalse)
                   ELSE Return(m, IF shortOn THEN PyBool(Truthy(f.v) \/ Truthy(right))
                                  ELSE PyBool(Truthy(f.v) /\ Truthy(right)))

StepAnd(m) == Logical(m, "AND", FALSE)

StepOr(m) == Logical(m, "OR", TRUE)

StepNot(m) ==
    LET f == Top(m)
    IN IF f.at = "start" THEN Call(m, f, "operand", f.node.expr)
       ELSE IF IsNone(m.retval) THEN Return(m, PyNone)
       ELSE IF ~IsBool(m.retval)
       THEN ReturnError(m, "Error de ejecucion: Operacion 'NOT' con tipo no booleano.", PyFalse)
       ELSE Return(m, PyBool(~Truthy(m.retval)))

StepUminus(m) ==
    LET f == Top(m)
    IN IF f.at = "start" THEN Call(m, f, "operand", f.node.expr)
       ELSE IF IsNone(m.retval) THEN Return(m, PyNone)
       ELSE IF ~IsNumeric(m.retval)
       THEN ReturnError(m, "Error de ejecucion: Negacion unaria con tipo no numerico.", PyNone)
       ELSE Return(m, NumNeg(m.retval))

StepAssign(m) ==
    LET f == Top(m)
        var_name == f.node.name
    IN IF f.at = "start" THEN Call(m, f, "value", f.node.expr)
       ELSE IF IsNone(m.retval) THEN Return(m, PyNone)
       ELSE IF ~Has(m.st, var_name) THEN [m EXCEPT !.exc = "KeyError"]
       ELSE [Return(m, m.retval) EXCEPT !.st[var_name].evaluated_value = m.retval,
                                        !.hist.assigned = @ \cup {var_name}]

\* The index of the first statement from i on that is not an error node
\* (`continue` skips those), or Len(stmts) + 1.
RECURSIVE NextStatement(_, _)
NextStatement(stmts, i) ==
    IF i > Len(stmts) THEN i
    ELSE IF stmts[i].t = "error" THEN NextStatement(stmts, i + 1)
    ELSE i

\* A statement of the block of an if, if_else or while has returned: the
\* block is left with None when a statement other than an assignment
\* returned None.
BlockStatementFailed(m) ==
    LET f == Top(m)
    IN IsNone(m.retval) /\ f.stmts[f.i].t # "assign"

\* The for loop over block_statements from statement i on, last_result
\* being last: the next statement is evaluated, or the loop is over and
\* the frame goes on as whenDone says.
ForLoop(m, f, i, last, whenDone) ==
    LET j == NextStatement(f.stmts, i)
        g == [f EXCEPT !.i = j, !.last = last]
    IN IF j <= Len(f.stmts) THEN Call(m, g, "stmt", f.stmts[j])
       ELSE IF whenDone = "return" THEN Return(m, last)
       ELSE Call(m, g, "cond", f.node.cond)

StepIf(m) ==
    LET f == Top(m)
    IN CASE f.at = "start" -> Call(m, f, "cond", f.node.cond)
         [] f.at = "cond" ->
                LET condition_result == m.retval
                IN IF IsNone(condition_result) THEN Return(m, PyNone)
                   ELSE IF ~IsBool(condition_result)
                   THEN ReturnError(m, "Error de ejecucion: La condicion IF debe ser booleana.",
                                    PyNone)
                   ELSE IF Truthy(condition_result)
                   THEN ForLoop(m, [f EXCEPT !.stmts = f.node.thenb], 1, PyNone, "return")
                   ELSE Return(m, PyNone)
         [] f.at = "stmt" ->
                IF BlockStatementFailed(m) THEN Return(m, PyNone)
                ELSE ForLoop(m, f, f.i + 1, m.retval, "return")

StepIfElse(m) ==
    LET f == Top(m)
    IN CASE f.at = "start" -> Call(m, f, "cond", f.node.cond)
         [] f.at = "cond" ->
                LET condition_result == m.retval
                IN IF IsNone(condition_result) THEN Return(m, PyNone)
                   ELSE IF ~IsBool(condition_result)
                   THEN ReturnError(m, "Error de ejecucion: La condicion IF/ELSE debe ser booleana.",
                                    PyNone)
                   ELSE ForLoop(m, [f EXCEPT !.stmts = IF Truthy(condition_result)
                                                     THEN f.node.thenb ELSE f.node.elseb],
                                1, PyNone, "return")
         [] f.at = "stmt" ->
                IF BlockStatementFailed(m) THEN Return(m, PyNone)
                ELSE ForLoop(m, f, f.i + 1, m.retval, "return")

\* A loop that runs its body at most once
StepWhileOnce(m) ==
    LET f == Top(m)
    IN CASE f.at = "start" ->
                Call(m, [f EXCEPT !.stmts = f.node.body], "cond", f.node.cond)
         [] f.at = "cond" ->
                IF IsNone(m.retval) \/ ~IsBool(m.retval) \/ ~Truthy(m.retval)
                THEN Return(m, f.last)
                ELSE ForLoop([m EXCEPT !.hist.passes = @ + 1], f, 1, f.last, "return")
         [] f.at = "stmt" -> ForLoop(m, f, f.i + 1, m.retval, "return")

\* One pass of `while True:`.  The model follows MaxIter passes of the
\* loops of a request and then stops ("MaxIter" is no Python exception).
StepWhile(m) ==
    LET f == Top(m)
    IN CASE f.at = "start" ->
                Call(m, [f EXCEPT !.stmts = f.node.body], "cond", f.node.cond)
         [] f.at = "cond" ->
                LET condition_result == m.retval
                IN IF IsNone(condition_result) THEN Return(m, PyNone)
                   ELSE IF ~IsBool(condition_result)
                   THEN ReturnError(m, "Error de ejecucion: La condicion WHILE debe ser booleana.",
                                    PyNone)
                   ELSE IF ~Truthy(condition_result) THEN Return(m, f.last)
                   ELSE IF m.hist.passes >= MaxIter THEN [m EXCEPT !.exc = "MaxIter"]
                   ELSE ForLoop([m EXCEPT !.hist.passes = @ + 1], f, 1, f.last, "again")
         [] f.at = "stmt" ->
                IF BlockStatementFailed(m) THEN Return(m, PyNone)
                ELSE ForLoop(m, f, f.i + 1, m.retval, "again")

\* if isinstance(node, list): the statements of the program
StepList(m) ==
    LET f == Top(m)
    IN IF f.at = "start" THEN ForLoop(m, f, 1, PyNone, "return")
       ELSE ForLoop(m, f, f.i + 1, m.retval, "return")

\* An ('error', ...) node, and any node no branch recognises: return None
StepOther(m) == Return(m, PyNone)

KnownNodes == {"number", "id", "AND", "OR", "NOT", "uminus", "assign", "if", "if_else",
               "while", "list"} \cup ArithOps \cup CompareOps

\* One step of the call on top of the stack.
Step(m) ==
    LET t == Top(m).node.t
    IN CASE t = "number" -> StepNumber(m)
         [] t = "id" -> StepId(m)
         [] t \in ArithOps -> StepArithmetic(m)
         [] t \in CompareOps -> StepComparison(m)
         [] t = "AND" -> StepAnd(m)
         [] t = "OR" -> StepOr(m)
         [] t = "NOT" -> StepNot(m)
         [] t = "uminus" -> StepUminus(m)
         [] t = "assign" -> StepAssign(m)
         [] t = "if" -> StepIf(m)
         [] t = "if_else" -> StepIfElse(m)
         [] t = "while" -> StepWhile(m)
         [] t = "list" -> StepList(m)
         [] OTHER -> StepOther(m)

(***************************************************************************)
(* Source texts.  A line is a sequence of words, a program a sequence of   *)
(* lines.                                                                  *)
(***************************************************************************)
RECURSIVE Join(_, _)
Join(parts, sep) ==
    IF parts = <<>> THEN <<>>
    ELSE IF Len(parts) = 1 THEN parts[1]
    ELSE parts[1] \o sep \o Join(Tail(parts), sep)

Line(words) == Join(words, <<" ">>)
Program(lines) == Join([i \in DOMAIN lines |-> Line(lines[i])], <<"\n">>)

\* str(n) of a natural number
RECURSIVE Numeral(_)
Numeral(n) == IF n < 10 THEN <<Digits[n + 1]>> ELSE Numeral(n \div 10) \o <<Digits[(n % 10) + 1]>>

IF_ == <<"I", "F">>
ELSE_ == <<"E", "L", "S", "E">>
WHILE_ == <<"W", "H", "I", "L", "E">>
AND_ == <<"A", "N", "D">>
OR_ == <<"O", "R">>
NOT_ == <<"N", "O", "T">>
and_ == <<"a", "n", "d">>
EQUAL_ == <<"=">>
LPAREN_ == <<"(">>
RPAREN_ == <<")">>
LBRACE_ == <<"{">>
RBRACE_ == <<"}">>
LT_ == <<"<">>
GT_ == <<">">>
PLUS_ == <<"+">>
MINUS_ == <<"-">>
TIMES_ == <<"*">>
DIVIDE_ == <<"/">>
contador == <<"c", "o", "n", "t", "a", "d", "o", "r">>
suma == <<"s", "u", "m", "a">>
unknown_var == <<"u", "n", "k", "n", "o", "w", "n", "_", "v", "a", "r">>

\* The one-letter variable name c
Var(c) == <<c>>

\* The WHILE sample of app.py's default_code with the loop bound n
CountingProgram(n) ==
    Program(<< <<contador, EQUAL_, Numeral(0)>>,
               <<suma, EQUAL_, Numeral(0)>>,
               <<WHILE_, LPAREN_, contador, LT_, Numeral(n), RPAREN_, LBRACE_>>,
               <<suma, EQUAL_, suma, PLUS_, contador>>,
               <<contador, EQUAL_, contador, PLUS_, Numeral(1)>>,
               <<RBRACE_>> >>)

(***************************************************************************)
(* The state of the program.                                               *)
(***************************************************************************)
NoHistory == [calls |-> 0, passes |-> 0, assigned |-> {}, static |-> 0]

Init ==
    /\ code = <<>>
    /\ pc = "idle"
    /\ calls = 0
    /\ lineno = 1
    /\ lexical_errors_list = <<>>
    /\ syntactic_errors_list = <<>>
    /\ semantic_errors_list = <<>>
    /\ symbol_table = EmptyDict
    /\ ast = NoneAst
    /\ all_errors = <<>>
    /\ evaluated_results = EmptyDict
    /\ stack = <<>>
    /\ retval = PyNone
    /\ prev = <<>>
    /\ hist = NoHistory
    /\ lexpos = 0
    /\ tokens_list = <<>>

\* parser.parse(code, lexer=lexer.lexer) after the four resets.  lexer.input
\* sets lexpos to 0 and leaves lineno as it is.
Parse(text, line) == LRParse(text, InitialConfiguration(line, EmptyDict, <<>>, <<>>, <<>>))

\* lexer.get_lexical_errors() + get_syntactic_errors() + get_semantic_errors()
AllErrors(lex, syn, sem) == lex \o syn \o sem

\* A request that evaluates whatever the error lists hold
AlwaysEvaluate(errors) == TRUE

\* `if not all_errors:`
ShouldEvaluate(errors) == errors = <<>>

\* What the request returns
Returned == [ast |-> ast, all_errors |-> all_errors, evaluated_results |-> evaluated_results]

\* The module state once parser.parse has returned with the configuration r.
AfterParse(r) ==
    /\ lineno' = r.lx.lineno
    /\ lexpos' = r.lx.lexpos
    /\ lexical_errors_list' = r.lx.errs
    /\ syntactic_errors_list' = r.syn
    /\ semantic_errors_list' = r.sem
    /\ symbol_table' = r.symbol_table
    /\ ast' = IF r.none THEN NoneAst ELSE Ast(r.result)
    /\ all_errors' = AllErrors(r.lx.errs, r.syn, r.sem)
    /\ hist' = [NoHistory EXCEPT !.static = Len(AllErrors(r.lx.errs, r.syn, r.sem))]

\* parse_and_interpret_code(code), up to `evaluated_results = {}`
ParseAndInterpretCode(src) ==
    /\ pc \in {"idle", "returned"}
    /\ calls < MaxCalls
    /\ calls > 0 => src = code
    /\ code' = src
    /\ AfterParse(Parse(src, lineno))
    /\ evaluated_results' = EmptyDict
    /\ calls' = calls + 1
    /\ pc' = "parsed"
    /\ stack' = <<>>
    /\ retval' = PyNone
    /\ UNCHANGED <<prev, tokens_list>>

\* all_errors is not empty: `return ast, all_errors, evaluated_results`
SkipEvaluation ==
    /\ pc = "parsed"
    /\ ~ShouldEvaluate(all_errors)
    /\ pc' = "returned"
    /\ prev' = Append(prev, Returned)
    /\ UNCHANGED <<code, calls, lineno, lexical_errors_list, syntactic_errors_list,
                   semantic_errors_list, symbol_table, ast, all_errors, evaluated_results,
                   stack, retval, hist, lexpos, tokens_list>>

\* evaluate_ast(ast, symbol_table) is called
EvaluateAst ==
    /\ pc = "parsed"
    /\ ShouldEvaluate(all_errors)
    /\ pc' = "evaluating"
    /\ stack' = <<Frame(IF ast.none THEN NoneNode ELSE ListNode, ast.stmts)>>
    /\ hist' = [hist EXCEPT !.calls = @ + 1]
    /\ UNCHANGED <<code, calls, lineno, lexical_errors_list, syntactic_errors_list,
                   semantic_errors_list, symbol_table, ast, all_errors, evaluated_results,
                   retval, prev, lexpos, tokens_list>>

\* The evaluator's machine state in the variables
Machine ==
    [stack |-> stack, retval |-> retval, st |-> symbol_table,
     errs |-> semantic_errors_list, exc |-> "", hist |-> hist]

Running == pc = "evaluating" /\ stack # <<>>

\* One step of the evaluate_ast call on top of the stack, its node being
\* of one of the kinds: the step leaves the machine in state m.
Eval(kinds, m) ==
    /\ stack[Len(stack)].node.t \in kinds
    /\ m.exc = ""
    /\ stack' = m.stack
    /\ retval' = m.retval
    /\ symbol_table' = m.st
    /\ semantic_errors_list' = m.errs
    /\ hist' = m.hist
    /\ UNCHANGED <<code, pc, calls, lineno, lexical_errors_list, syntactic_errors_list,
                   ast, all_errors, evaluated_results, prev, lexpos, tokens_list>>

EvalNumber == Running /\ Eval({"number"}, StepNumber(Machine))
EvalId == Running /\ Eval({"id"}, StepId(Machine))
EvalArithmetic == Running /\ Eval(ArithOps, StepArithmetic(Machine))
EvalComparison == Running /\ Eval(CompareOps, StepComparison(Machine))
EvalAnd == Running /\ Eval({"AND"}, StepAnd(Machine))
EvalOr == Running /\ Eval({"OR"}, StepOr(Machine))
EvalNot == Running /\ Eval({"NOT"}, StepNot(Machine))
EvalUminus == Running /\ Eval({"uminus"}, StepUminus(Machine))
EvalAssign == Running /\ Eval({"assign"}, StepAssign(Machine))
EvalIf == Running /\ Eval({"if"}, StepIf(Machine))
EvalIfElse == Running /\ Eval({"if_else"}, StepIfElse(Machine))
EvalWhile == Running /\ Eval({"while"}, StepWhile(Machine))
EvalList == Running /\ Eval({"list"}, StepList(Machine))
EvalOther == Running /\ Eval({stack[Len(stack)].node.t} \ KnownNodes, StepOther(Machine))

\* A request that collects nothing
NoResults(st) == EmptyDict

\* for var_name, var_info in symbol_table.items(): ...
Results(st) ==
    LET names == {name \in DOMAIN st : ~IsNone(st[name].evaluated_value)}
    IN [name \in names |-> st[name].evaluated_value]

\* evaluate_ast has returned: the results are collected and returned
CollectResults ==
    /\ pc = "evaluating"
    /\ stack = <<>>
    /\ evaluated_results' = Results(symbol_table)
    /\ all_errors' = AllErrors(lexical_errors_list, syntactic_errors_list, semantic_errors_list)
    /\ pc' = "returned"
    /\ prev' = Append(prev, [ast |-> ast,
                             all_errors |-> AllErrors(lexical_errors_list, syntactic_errors_list,
                                                      semantic_errors_list),
                             evaluated_results |-> Results(symbol_table)])
    /\ UNCHANGED <<code, calls, lineno, lexical_errors_list, syntactic_errors_list,
                   semantic_errors_list, symbol_table, ast, stack, retval, hist, lexpos,
                   tokens_list>>

\* `except Exception as e:` the step of the call on top of the stack raises
InternalError ==
    /\ Running
    /\ LET m == Step(Machine)
           errs == add_semantic_error(m.errs,
                                      Msg("Error interno durante la ejecucion", << <<m.exc>> >>, <<>>),
                                      NoPos, NoPos)
       IN /\ m.exc \in {"RecursionError", "KeyError"}
          /\ semantic_errors_list' = errs
          /\ all_errors' = AllErrors(lexical_errors_list, syntactic_errors_list, errs)
          /\ prev' = Append(prev, [ast |-> ast,
                                   all_errors |-> AllErrors(lexical_errors_list,
                                                            syntactic_errors_list, errs),
                                   evaluated_results |-> evaluated_results])
    /\ stack' = <<>>
    /\ pc' = "returned"
    /\ UNCHANGED <<code, calls, lineno, lexical_errors_list, syntactic_errors_list,
                   symbol_table, ast, evaluated_results, retval, hist, lexpos, tokens_list>>

(***************************************************************************)
(* The source texts of the requests.                                       *)
(***************************************************************************)
ArithLexemes == {PLUS_, MINUS_, TIMES_, DIVIDE_}
CompareLexemes == {LT_, <<"<", "=">>, GT_, <<">", "=">>, <<"=", "=">>, <<"!", "=">>}
LogicLexemes == {AND_, OR_}
BinaryLexemes == ArithLexemes \cup CompareLexemes \cup LogicLexemes
Literals == 0..MaxLit

\* x = l op1 m op2 r
ExpressionProgram(l, op1, m, op2, r) ==
    Line(<<Var("x"), EQUAL_, Numeral(l), op1, Numeral(m), op2, Numeral(r)>>)

\* Every pair of binary operators between the literals 1, 2 and 3
PrecedencePrograms == {ExpressionProgram(1, op1, 2, op2, 3) : op1, op2 \in BinaryLexemes}

\* Every pair of arithmetic operators between all the literals
ValuePrograms ==
    {ExpressionProgram(l, op1, m, op2, r) : op1, op2 \in ArithLexemes, l, m, r \in Literals}

\* Prefix operators before and inside binary ones
NotProgram(op) == Line(<<Var("x"), EQUAL_, NOT_, Numeral(1), op, Numeral(2)>>)
MinusProgram(op) == Line(<<Var("x"), EQUAL_, MINUS_, Numeral(1), op, Numeral(2)>>)
MinusRightProgram(op) == Line(<<Var("x"), EQUAL_, Numeral(1), op, MINUS_, Numeral(2)>>)
NotRightProgram(op) ==
    Line(<<Var("x"), EQUAL_, Numeral(1), LT_, Numeral(2), op, NOT_, Numeral(2), LT_, Numeral(1)>>)

PrefixPrograms ==
    {NotProgram(op) : op \in BinaryLexemes}
    \cup {MinusProgram(op) : op \in BinaryLexemes}
    \cup {MinusRightProgram(op) : op \in BinaryLexemes}
    \cup {NotRightProgram(op) : op \in LogicLexemes}

\* Operands of the logical programs: a number, a true and a false
\* comparison, a float variable, a boolean variable, an undeclared name, a
\* comparison that divides by zero, a boolean variable not yet evaluated.
Operands ==
    { <<Numeral(5)>>,
      <<Numeral(1), LT_, Numeral(2)>>,
      <<Numeral(2), LT_, Numeral(1)>>,
      <<Var("f")>>,
      <<Var("t")>>,
      <<Var("u")>>,
      <<LPAREN_, Numeral(1), DIVIDE_, Numeral(0), GT_, Numeral(0), RPAREN_>>,
      <<Var("v")>> }

\* f = 1; t = 1 < 2; IF (2 < 1) { v = 1 < 2 }; w = l op r
LogicalProgram(l, op, r) ==
    Program(<< <<Var("f"), EQUAL_, Numeral(1)>>,
               <<Var("t"), EQUAL_, Numeral(1), LT_, Numeral(2)>>,
               <<IF_, LPAREN_, Numeral(2), LT_, Numeral(1), RPAREN_, LBRACE_, Var("v"), EQUAL_,
                 Numeral(1), LT_, Numeral(2), RBRACE_>>,
               <<Var("w"), EQUAL_>> \o l \o <<op>> \o r >>)

LogicalPrograms == {LogicalProgram(l, op, r) : l, r \in Operands, op \in LogicLexemes}

\* z = unknown_var op n, and z = n op unknown_var
UndeclaredProgram(op, n, idFirst) ==
    IF idFirst THEN Line(<<Var("z"), EQUAL_, unknown_var, op, Numeral(n)>>)
    ELSE Line(<<Var("z"), EQUAL_, Numeral(n), op, unknown_var>>)

UndeclaredPrograms ==
    {UndeclaredProgram(op, n, idFirst) : op \in ArithLexemes, n \in Literals,
                                         idFirst \in BOOLEAN}

\* y = n / 0 followed by z = 1
DivisionProgram(n) ==
    Program(<< <<Var("y"), EQUAL_, Numeral(n), DIVIDE_, Numeral(0)>>,
               <<Var("z"), EQUAL_, Numeral(1)>> >>)

DivisionPrograms == {DivisionProgram(n) : n \in Literals \cup {5}}

CountingPrograms == {CountingProgram(n) : n \in 0..MaxN}

\* x = first; IF (2 < 1) { x = second }; then the lines that use x.  The
\* parser leaves x with the type of second, the evaluator with the value
\* of first.
RetypedProgram(first, second, uses) ==
    Program(<< <<Var("x"), EQUAL_>> \o first,
               <<IF_, LPAREN_, Numeral(2), LT_, Numeral(1), RPAREN_, LBRACE_, Var("x"), EQUAL_>>
                   \o second \o <<RBRACE_>> >> \o uses)

TrueComparison == <<Numeral(1), LT_, Numeral(2)>>
FalseComparison == <<Numeral(2), LT_, Numeral(1)>>

\* x is True and is taken for a number: y = x op 2, y = 2 op x, y = - x
BooleanArithmeticProgram(op, xFirst) ==
    RetypedProgram(TrueComparison, <<Numeral(5)>>,
                   << IF xFirst THEN <<Var("y"), EQUAL_, Var("x"), op, Numeral(2)>>
                      ELSE <<Var("y"), EQUAL_, Numeral(2), op, Var("x")>> >>)

BooleanMinusProgram ==
    RetypedProgram(TrueComparison, <<Numeral(5)>>, << <<Var("y"), EQUAL_, MINUS_, Var("x")>> >>)

BooleanArithmeticPrograms ==
    {BooleanArithmeticProgram(op, xFirst) : op \in ArithLexemes, xFirst \in BOOLEAN}
    \cup {BooleanMinusProgram}

\* x is 5.0 and is taken for a boolean: y = l op r with x, a true or a
\* false comparison on each side
NumberOperands == {<<Var("x")>>, TrueComparison, FalseComparison}

NumberLogicalProgram(l, op, r) ==
    RetypedProgram(<<Numeral(5)>>, TrueComparison, << <<Var("y"), EQUAL_>> \o l \o <<op>> \o r >>)

NumberLogicalPrograms ==
    {NumberLogicalProgram(l, op, r) : l, r \in NumberOperands, op \in LogicLexemes}

\* Programs that refer several times to names not assigned before: u + u,
\* three statements u, a reference before and after an assignment, two
\* names, a counter never initialised, and references around a syntax error
RepeatedUndeclaredPrograms ==
    { Line(<<Var("z"), EQUAL_, Var("u"), PLUS_, Var("u")>>),
      Program(<< <<Var("u")>>, <<Var("u")>>, <<Var("u")>> >>),
      Program(<< <<Var("z"), EQUAL_, Var("u")>>,
                 <<Var("u"), EQUAL_, Numeral(1)>>,
                 <<Var("y"), EQUAL_, Var("u")>> >>),
      Program(<< <<Var("z"), EQUAL_, Var("u"), PLUS_, Var("q")>>,
                 <<Var("y"), EQUAL_, Var("q"), PLUS_, Var("u")>> >>),
      Program(<< <<Var("x"), EQUAL_, Var("x"), PLUS_, Numeral(1)>>,
                 <<Var("x"), EQUAL_, Var("x"), PLUS_, Numeral(1)>> >>),
      Line(<<Var("u"), RPAREN_, Var("u")>>),
      Program(<< <<WHILE_, LPAREN_, Var("u"), LT_, Numeral(1), RPAREN_, LBRACE_,
                   Var("u"), EQUAL_, Var("u"), PLUS_, Numeral(1), RBRACE_>>,
                 <<Var("u")>> >>) }

\* Programs with an empty statement sequence: no text, a comment only, an
\* IF and a WHILE with the block { }
EmptySequencePrograms ==
    { <<>>,
      Line(<< <<"#">>, Var("c")>>),
      Line(<<IF_, LPAREN_, Numeral(1), LT_, Numeral(2), RPAREN_, LBRACE_, RBRACE_>>),
      Program(<< <<Var("x"), EQUAL_, Numeral(1)>>,
                 <<WHILE_, LPAREN_, Var("x"), LT_, Numeral(1), RPAREN_, LBRACE_, RBRACE_>> >>) }

\* Texts taken from the repository's samples and documentation, and texts
\* with one error of each kind.
Samples ==
    { <<>>,
      Line(<<Var("x"), EQUAL_, Numeral(2), PLUS_, Numeral(3), TIMES_, Numeral(4)>>),
      Line(<<Var("x"), EQUAL_, MINUS_, Numeral(1)>>),
      Line(<<Var("x"), EQUAL_, Numeral(1), <<"$">> >>),
      Program(<< <<Var("x"), EQUAL_, Numeral(1)>>, << <<"$">> >> >>),
      Program(<< << <<"#">>, Var("c")>>, <<Var("x"), EQUAL_, Numeral(1)>> >>),
      Line(<<Var("x"), EQUAL_, Numeral(1), RPAREN_>>),
      Line(<<Var("x"), EQUAL_, Numeral(1), RPAREN_, Var("y"), EQUAL_, Numeral(2)>>),
      Line(<<Var("a"), RBRACE_>>),
      Line(<<IF_, LPAREN_, Numeral(1), LT_, Numeral(2), RPAREN_, LBRACE_, RBRACE_>>),
      Line(<<Var("x"), EQUAL_, Numeral(1), LT_, Numeral(2), and_, Numeral(2), LT_, Numeral(3)>>),
      Line(<<Var("y"), EQUAL_, NOT_, MINUS_, LPAREN_, Numeral(1), LT_, Numeral(2), RPAREN_>>),
      Program(<< <<Var("x"), EQUAL_, Numeral(1)>>,
                 <<IF_, LPAREN_, Numeral(0), GT_, Numeral(1), RPAREN_, LBRACE_,
                   Var("y"), EQUAL_, Numeral(1)>>,
                 <<Var("y"), EQUAL_, Var("y"), PLUS_, Numeral(1), RBRACE_>>,
                 <<Var("z"), EQUAL_, Var("y")>> >>),
      Program(<< <<Var("x"), EQUAL_, Numeral(1)>>,
                 <<IF_, LPAREN_, Var("x"), LT_, Numeral(0), RPAREN_, LBRACE_,
                   Var("y"), EQUAL_, Numeral(2), RBRACE_>>,
                 <<Var("z"), EQUAL_, Var("y")>> >>),
      Program(<< <<Var("x"), EQUAL_, Numeral(1)>>,
                 <<IF_, LPAREN_, Numeral(1), GT_, Numeral(2), RPAREN_, LBRACE_,
                   Var("x"), EQUAL_, Numeral(1), LT_, Numeral(2), RBRACE_>>,
                 <<Var("y"), EQUAL_, NOT_, Var("x")>> >>),
      Program(<< <<Var("x"), EQUAL_, Numeral(1)>>,
                 <<WHILE_, LPAREN_, Var("x"), LT_, Numeral(3), RPAREN_, LBRACE_,
                   IF_, LPAREN_, Var("x"), GT_, Numeral(5), RPAREN_, LBRACE_,
                   Var("x"), EQUAL_, Numeral(9), RBRACE_>>,
                 <<Var("x"), EQUAL_, Var("x"), PLUS_, Numeral(1), RBRACE_>> >>),
      Program(<< <<Var("x"), EQUAL_, Numeral(1)>>,
                 <<IF_, LPAREN_, Var("x"), LT_, Numeral(3), RPAREN_, LBRACE_,
                   WHILE_, LPAREN_, Var("x"), GT_, Numeral(5), RPAREN_, LBRACE_,
                   Var("x"), EQUAL_, Numeral(9), RBRACE_>>,
                 <<Var("x"), EQUAL_, Var("x"), PLUS_, Numeral(1), RBRACE_>> >>),
      Program(<< <<Numeral(1), AND_, Numeral(2)>>,
                 <<WHILE_, LPAREN_, Numeral(1), AND_, Numeral(2), RPAREN_, LBRACE_,
                   Numeral(1), OR_, Numeral(2), RBRACE_>> >>),
      Program(<< <<Var("b"), EQUAL_, Numeral(1), LT_, Numeral(2)>>,
                 <<Var("x"), EQUAL_, Numeral(1)>>,
                 <<WHILE_, LPAREN_, Var("b"), AND_, Var("x"), LT_, Numeral(3), RPAREN_, LBRACE_,
                   Var("x"), EQUAL_, Var("x"), PLUS_, Numeral(1)>>,
                 <<Var("b"), EQUAL_, Numeral(7), RBRACE_>> >>),
      Program(<< <<Var("n"), EQUAL_, Numeral(1)>>,
                 <<WHILE_, LPAREN_, Var("n"), PLUS_, Numeral(5), RPAREN_, LBRACE_,
                   Var("n"), EQUAL_, Var("n"), MINUS_, Numeral(1), RBRACE_>> >>),
      \* gramatica.py, __main__: "Prueba WHILE simple"
      Program(<< <<>>,
                 <<contador, EQUAL_, Numeral(0)>>,
                 <<WHILE_, LPAREN_, contador, LT_, Numeral(3), RPAREN_, LBRACE_>>,
                 <<contador, EQUAL_, contador, PLUS_, Numeral(1)>>,
                 <<Var("r"), EQUAL_, contador, TIMES_, Numeral(10)>>,
                 <<RBRACE_>>,
                 <<>> >>),
      \* gramatica.py, __main__: "Prueba IF/ELSE y Operadores"
      Program(<< <<>>,
                 <<Var("a"), EQUAL_, Numeral(15)>>,
                 <<Var("b"), EQUAL_, Numeral(10)>>,
                 <<IF_, LPAREN_, Var("a"), GT_, Var("b"), AND_, NOT_, LPAREN_, Var("a"),
                   <<"=", "=">>, Var("b"), RPAREN_, RPAREN_, LBRACE_>>,
                 <<Var("r"), EQUAL_, Var("a"), PLUS_, Numeral(5)>>,
                 <<RBRACE_, ELSE_, LBRACE_>>,
                 <<Var("r"), EQUAL_, Var("b"), MINUS_, Numeral(5)>>,
                 <<RBRACE_>>,
                 <<>> >>) }

Sources ==
    CountingPrograms \cup PrecedencePrograms \cup ValuePrograms \cup PrefixPrograms
    \cup LogicalPrograms \cup UndeclaredPrograms \cup DivisionPrograms \cup Samples
    \cup BooleanArithmeticPrograms \cup NumberLogicalPrograms \cup EmptySequencePrograms
    \cup RepeatedUndeclaredPrograms

Next ==
    \/ \E src \in Sources : ParseAndInterpretCode(src)
    \/ SkipEvaluation
    \/ EvaluateAst
    \/ EvalNumber
    \/ EvalId
    \/ EvalArithmetic
    \/ EvalComparison
    \/ EvalAnd
    \/ EvalOr
    \/ EvalNot
    \/ EvalUminus
    \/ EvalAssign
    \/ EvalIf
    \/ EvalIfElse
    \/ EvalWhile
    \/ EvalList
    \/ EvalOther
    \/ CollectResults
    \/ InternalError

Spec == Init /\ [][Next]_vars

(***************************************************************************)
(* lexer.py: test_lexer(data), one lexer.token() call at a time.           *)
(***************************************************************************)
LexAlphabet == {"<", ">", "=", "!", "a", "1", " ", "\n", "$", "#"}

RECURSIVE Texts(_)
Texts(n) ==
    IF n = 0 THEN {<<>>}
    ELSE LET shorter == Texts(n - 1)
         IN shorter \cup {Append(t, c) : t \in shorter, c \in LexAlphabet}

LexerInputs == Texts(MaxLexLen)

\* reset_lexical_errors(); lexer.input(data); tokens_list = []
TestLexer(data) ==
    /\ pc = "idle"
    /\ pc' = "lexing"
    /\ code' = data
    /\ lexpos' = 0
    /\ lexical_errors_list' = <<>>
    /\ tokens_list' = <<>>
    /\ UNCHANGED <<calls, lineno, syntactic_errors_list, semantic_errors_list, symbol_table,
                   ast, all_errors, evaluated_results, stack, retval, prev, hist>>

\* tok = lexer.token(); `if not tok: break`; tokens_list.append(tok)
NextToken ==
    /\ pc = "lexing"
    /\ LET r == token(code, [lexpos |-> lexpos, lineno |-> lineno, errs |-> lexical_errors_list])
       IN /\ lexpos' = r.lx.lexpos
          /\ lineno' = r.lx.lineno
          /\ lexical_errors_list' = r.lx.errs
          /\ r.tok.type # "None"
          /\ tokens_list' = Append(tokens_list, r.tok)
    /\ UNCHANGED <<code, pc, calls, syntactic_errors_list, semantic_errors_list, symbol_table,
                   ast, all_errors, evaluated_results, stack, retval, prev, hist>>

\* lexer.token() returns None: `return tokens_list, errors`
EndOfInput ==
    /\ pc = "lexing"
    /\ LET r == token(code, [lexpos |-> lexpos, lineno |-> lineno, errs |-> lexical_errors_list])
       IN /\ lexpos' = r.lx.lexpos
          /\ lineno' = r.lx.lineno
          /\ lexical_errors_list' = r.lx.errs
          /\ r.tok.type = "None"
    /\ pc' = "lexed"
    /\ UNCHANGED <<code, calls, syntactic_errors_list, semantic_errors_list, symbol_table,
                   ast, all_errors, evaluated_results, stack, retval, prev, hist, tokens_list>>

NextLexer ==
    \/ \E data \in LexerInputs : TestLexer(data)
    \/ NextToken
    \/ EndOfInput

SpecLexer == Init /\ [][NextLexer]_vars

(***************************************************************************)
(* Properties.                                                             *)
(***************************************************************************)
\* The messages of the errors evaluate_ast records as 'Error de ejecucion'
RuntimeErrorTexts ==
    { "Error de ejecucion: Division por cero.",
      "Error de ejecucion: La condicion IF debe ser booleana.",
      "Error de ejecucion: La condicion IF/ELSE debe ser booleana.",
      "Error de ejecucion: La condicion WHILE debe ser booleana.",
      "Error de ejecucion: Negacion unaria con tipo no numerico.",
      "Error de ejecucion: Operacion 'NOT' con tipo no booleano.",
      "Error de ejecucion: Operacion con operando derecho no booleano.",
      "Error de ejecucion: Operacion con operando izquierdo no booleano.",
      "Error de ejecucion: Operacion con tipos no numericos." }

IsRuntimeError(e) == e.message.text \in RuntimeErrorTexts
IsInternalError(e) == e.message.text = "Error interno durante la ejecucion"

Finished == pc = "returned"

\* The variables that are the target of an assignment anywhere in the statements
RECURSIVE AssignTargets(_)
AssignTargets(stmts) ==
    IF stmts = <<>> THEN {}
    ELSE LET s == Head(stmts)
             here == CASE s.t = "assign" -> {s.name}
                       [] s.t = "if" -> AssignTargets(s.thenb)
                       [] s.t = "if_else" -> AssignTargets(s.thenb) \cup AssignTargets(s.elseb)
                       [] s.t = "while" -> AssignTargets(s.body)
                       [] OTHER -> {}
         IN here \cup AssignTargets(Tail(stmts))

\* C1: when the request finds a lexical, syntactic or static semantic error,
\* evaluate_ast is never invoked: no evaluation is ever in progress, the
\* results map is empty, every symbol-table entry's evaluated_value is still
\* None and the error list holds no 'Error de ejecucion' error.
C1_EvaluationSkipped ==
    (pc \in {"parsed", "evaluating", "returned"} /\ hist.static > 0) =>
        /\ pc # "evaluating"
        /\ hist.calls = 0
        /\ stack = <<>>
        /\ DOMAIN evaluated_results = {}
        /\ \A name \in DOMAIN symbol_table : IsNone(symbol_table[name].evaluated_value)
        /\ \A i \in DOMAIN all_errors : ~IsRuntimeError(all_errors[i])
        /\ Len(all_errors) = hist.static

\* A request with a static error has returned an AST with an assignment
C1_Witness ==
    /\ Finished
    /\ hist.static > 0
    /\ ~ast.none
    /\ AssignTargets(ast.stmts) # {}
    /\ DOMAIN evaluated_results = {}

\* C2: two requests in succession on the same source text return the same
\* ast, the same error list with the same lines and columns, and the same
\* results map.
C2_SecondCallIdentical ==
    Len(prev) >= 2 => prev[2] = prev[1]

C4_CountingLoop ==
    \A n \in 0..MaxN :
        code = CountingProgram(n) =>
            /\ pc = "evaluating" =>
                  /\ hist.passes <= n
                  /\ semantic_errors_list = <<>>
                  /\ stack # <<>> => Step(Machine).exc = ""
            /\ Finished =>
                  /\ all_errors = <<>>
                  /\ hist.passes = n
                  /\ DOMAIN evaluated_results = {contador, suma}
                  /\ evaluated_results[contador] = PyNum(n)
                  /\ evaluated_results[suma] = PyNum((n * (n - 1)) \div 2)

\* The counting program with n = 5 has returned contador 5 and suma 10
C4_Witness ==
    /\ Finished
    /\ code = CountingProgram(5)
    /\ hist.passes = 5
    /\ DOMAIN evaluated_results = {contador, suma}
    /\ evaluated_results[contador] = PyNum(5)
    /\ evaluated_results[suma] = PyNum(10)

\* The left operand of the AND or OR on top of the stack has just been
\* evaluated to the boolean that decides the node
LeftDecides ==
    /\ Running
    /\ stack[Len(stack)].node.t \in {"AND", "OR"}
    /\ stack[Len(stack)].at = "left"
    /\ IsBool(retval)
    /\ Truthy(retval) <=> stack[Len(stack)].node.t = "OR"

\* C5: when the left operand of an AND is false or of an OR is true, the
\* node returns false (AND) or true (OR) at once: no evaluate_ast call is
\* made for the right operand, no error is recorded and the symbol table
\* is not written.
C5_ShortCircuit ==
    [][LeftDecides =>
          /\ stack' = SubSeq(stack, 1, Len(stack) - 1)
          /\ retval' = PyBool(stack[Len(stack)].node.t = "OR")
          /\ hist'.calls = hist.calls
          /\ semantic_errors_list' = semantic_errors_list
          /\ symbol_table' = symbol_table
          /\ pc' = "evaluating"]_vars

DividesByZero == <<LPAREN_, Numeral(1), DIVIDE_, Numeral(0), GT_, Numeral(0), RPAREN_>>

\* w = 2 < 1 AND (1 / 0 > 0) has returned w = False and no error
C5_Witness ==
    /\ Finished
    /\ code = LogicalProgram(<<Numeral(2), LT_, Numeral(1)>>, AND_, DividesByZero)
    /\ all_errors = <<>>
    /\ Var("w") \in DOMAIN evaluated_results
    /\ evaluated_results[Var("w")] = PyFalse

DivisionByZeroError ==
    ErrorRecord("Semantico", Msg("Error de ejecucion: Division por cero.", <<>>, <<>>),
                NoPos, NoPos)

\* C6: y = n / 0 followed by z = 1 returns the one error 'Division por
\* cero', y = inf and z = 1: the division does not abort the run.
C6_DivisionByZero ==
    \A n \in Literals \cup {5} :
        (Finished /\ code = DivisionProgram(n)) =>
            /\ all_errors = <<DivisionByZeroError>>
            /\ DOMAIN evaluated_results = {Var("y"), Var("z")}
            /\ evaluated_results[Var("y")] = PyInf
            /\ evaluated_results[Var("z")] = PyNum(1)

\* y = 5 / 0 followed by z = 1 has returned
C6_Witness ==
    /\ Finished
    /\ code = DivisionProgram(5)
    /\ all_errors = <<DivisionByZeroError>>
    /\ Var("y") \in DOMAIN evaluated_results
    /\ evaluated_results[Var("y")] = PyInf

UndeclaredError(name) == Msg("Variable no declarada.", <<name>>, <<>>)

\* C7: z = unknown_var op n, and z = n op unknown_var, returns exactly one
\* error, the semantic error that unknown_var is not declared, and is not
\* evaluated.
C7_OneUndeclaredError ==
    (Finished /\ code \in UndeclaredPrograms) =>
        /\ Len(all_errors) = 1
        /\ all_errors[1].type = "Semantico"
        /\ all_errors[1].message = UndeclaredError(unknown_var)
        /\ hist.calls = 0
        /\ DOMAIN evaluated_results = {}

\* The type the parser has for an operand of the logical programs: a
\* number and f are float, the comparisons, t and v are boolean, and the
\* undeclared u has the type of its placeholder entry.
OperandType(operand) ==
    IF operand \in {<<Numeral(5)>>, <<Var("f")>>} THEN "float"
    ELSE IF operand = <<Var("u")>> THEN "unknown_error"
    ELSE "boolean"

LogicalTypeError(op, type1, type2) ==
    Msg("Error de tipo: Operacion logica no definida para",
        << <<op>>, <<type1>>, <<type2>> >>, <<>>)

Level(op) ==
    CASE op = "OR" -> 1
      [] op = "AND" -> 2
      [] op = "NOT" -> 3
      [] op \in {"==", "!="} -> 4
      [] op \in {"<", "<=", ">", ">="} -> 5
      [] op \in {"+", "-"} -> 6
      [] op \in {"*", "/"} -> 7
      [] op = "uminus" -> 8

\* The tree of a node, an error node standing for the operator it was
\* built for
RECURSIVE Shape(_)
Shape(node) ==
    CASE node.t \in {"number", "id"} -> node
      [] node.t \in {"NOT", "uminus"} -> [t |-> node.t, expr |-> Shape(node.expr)]
      [] node.t = "error" ->
            IF node.op = "NOT" THEN Not(Shape(node.expr))
            ELSE BinOp(node.op, Shape(node.left), Shape(node.right))
      [] OTHER -> BinOp(node.t, Shape(node.left), Shape(node.right))

Lit(n) == Number(PyNum(n))

\* l op1 m op2 r grouped by the levels: the higher operator first, and
\* left to right on the same level
Grouped(l, op1, m, op2, r) ==
    IF Level(op2) > Level(op1) THEN BinOp(op1, l, BinOp(op2, m, r))
    ELSE BinOp(op2, BinOp(op1, l, m), r)

\* The value of a tree of arithmetic operators on number literals, a
\* division by zero being positive infinity
RECURSIVE Value(_)
Value(node) ==
    IF node.t = "number" THEN node.value
    ELSE LET left == Value(node.left)
             right == Value(node.right)
         IN CASE node.t = "+" -> NumAdd(left, right)
              [] node.t = "-" -> NumSub(left, right)
              [] node.t = "*" -> NumMul(left, right)
              [] node.t = "/" -> IF right = PyNum(0) THEN PyInf ELSE NumDiv(left, right)

\* The expression of the only statement, x = ..., of the program parsed
Expression == Shape(ast.stmts[1].expr)

Parsed == pc \in {"parsed", "evaluating", "returned"} /\ ~ast.none /\ Len(ast.stmts) = 1

TwoCharacterToken(lexeme) ==
    CASE lexeme = <<"<", "=">> -> "LE"
      [] lexeme = <<">", "=">> -> "GE"
      [] lexeme = <<"=", "=">> -> "EQ"
      [] lexeme = <<"!", "=">> -> "NE"

\* The two characters at the lexer's position are <=, >=, == or !=
AtTwoCharacterOperator ==
    /\ pc = "lexing"
    /\ lexpos + 2 <= Len(code)
    /\ SubSeq(code, lexpos + 1, lexpos + 2) \in
          {<<"<", "=">>, <<">", "=">>, <<"=", "=">>, <<"!", "=">>}

\* C10: when the two characters at the lexer's position are <=, >=, == or
\* !=, the next token is the single token LE, GE, EQ or NE made of both
\* characters, and no illegal character is reported.
C10_TwoCharacterOperators ==
    [][AtTwoCharacterOperator =>
          /\ tokens_list' =
                Append(tokens_list,
                       [type |-> TwoCharacterToken(SubSeq(code, lexpos + 1, lexpos + 2)),
                        value |-> SubSeq(code, lexpos + 1, lexpos + 2),
                        lineno |-> lineno,
                        lexpos |-> lexpos])
          /\ lexpos' = lexpos + 2
          /\ lexical_errors_list' = lexical_errors_list
          /\ pc' = "lexing"]_vars

\* a== has been lexed as ID and EQ
C10_Witness ==
    /\ pc = "lexed"
    /\ code = <<"a", "=", "=">>
    /\ Len(tokens_list) = 2
    /\ tokens_list[1].type = "ID"
    /\ tokens_list[2].type = "EQ"
    /\ lexical_errors_list = <<>>


\* The character at the 1-based index i is inside a comment: a # precedes
\* it (or is it) with no newline in between.
InCommentAt(text, i) == \E j \in 1..i : text[j] = "#" /\ \A k \in j..i : text[k] # "\n"

\* The characters a token, a blank, a newline or a comment can start with
LegalFirstCharacters ==
    {"+", "-", "*", "/", "(", ")", "=", "<", ">", "{", "}", " ", "\t", "\n", "#"}

\* The character at i of a text without decimal points matches no token
\* rule: it starts no token (! starts one only as !=) and is not inside a
\* comment.
IllegalAt(text, i) ==
    /\ ~InCommentAt(text, i)
    /\ ~IsIdChar(text[i])
    /\ text[i] \notin LegalFirstCharacters
    /\ ~(text[i] = "!" /\ i < Len(text) /\ text[i + 1] = "=")

IllegalPositions(text) ==
    SelectSeq([i \in 1..Len(text) |-> i], LAMBDA i : IllegalAt(text, i))

\* The line of the character at i, the first line being 1
LineOf(text, i) == 1 + Cardinality({j \in 1..(i - 1) : text[j] = "\n"})

\* The column of the character at i: its offset from the most recent
\* newline, or from the start of the input when no newline precedes it
ColumnOf(text, i) ==
    LET newlines == {j \in 1..(i - 1) : text[j] = "\n"}
    IN IF newlines = {} THEN i - 1
       ELSE i - (CHOOSE j \in newlines : \A k \in newlines : k <= j)

IllegalCharacterError(text, i) ==
    ErrorRecord("Lexico", Msg("Caracter ilegal", << <<text[i]>> >>, <<>>),
                LineOf(text, i), ColumnOf(text, i))

\* The text with a blank in the place of every illegal character
Blanked(text) == [i \in 1..Len(text) |-> IF IllegalAt(text, i) THEN " " ELSE text[i]]

\* The tokens lexer.token() returns for the text from the lexer state lx on
RECURSIVE TokensFrom(_, _)
TokensFrom(text, lx) ==
    LET r == token(text, lx)
    IN IF r.tok.type = "None" THEN <<>> ELSE <<r.tok>> \o TokensFrom(text, r.lx)

BlockStatementReturned ==
    /\ Running
    /\ stack[Len(stack)].node.t \in {"if", "if_else", "while"}
    /\ stack[Len(stack)].at = "stmt"
    /\ semantic_errors_list = <<>>
    /\ Len(stack) < RecursionLimit

\* C12, as stated: once a block is entered every statement of it is
\* executed in order, and a WHILE goes on to evaluate its condition again:
\* when a statement of a block has returned, the next step calls
\* evaluate_ast for the statement that follows it or, after the last
\* statement of a WHILE body, for the condition; the block is left only
\* after the last statement of an IF or IF-ELSE block.
C12_BlockRunsToItsEnd ==
    [][BlockStatementReturned =>
          IF \/ stack[Len(stack)].i < Len(stack[Len(stack)].stmts)
             \/ stack[Len(stack)].node.t = "while"
          THEN /\ Len(stack') = Len(stack) + 1
               /\ stack'[Len(stack')].at = "start"
               /\ stack'[Len(stack')].node =
                     IF stack[Len(stack)].i < Len(stack[Len(stack)].stmts)
                     THEN stack[Len(stack)].stmts[stack[Len(stack)].i + 1]
                     ELSE stack[Len(stack)].node.cond
          ELSE Len(stack') = Len(stack) - 1]_vars


\* The operands of the arithmetic operator on top of the stack have been
\* evaluated and one of them is a boolean, or the operand of the unary
\* minus on top of the stack has been evaluated to a boolean.
BooleanOperand ==
    /\ Running
    /\ \/ /\ stack[Len(stack)].node.t \in ArithOps
          /\ stack[Len(stack)].at = "right"
          /\ stack[Len(stack)].v.k # "None"
          /\ retval.k # "None"
          /\ stack[Len(stack)].v.k = "bool" \/ retval.k = "bool"
       \/ /\ stack[Len(stack)].node.t = "uminus"
          /\ stack[Len(stack)].at = "operand"
          /\ retval.k = "bool"

\* C13, as stated: when an arithmetic operator or a unary minus has a
\* boolean operand, the node returns None and one 'Error de ejecucion' with
\* the message for non-numeric operands is recorded.
C13_BooleanOperandRejected ==
    [][BooleanOperand =>
          /\ retval'.k = "None"
          /\ Len(semantic_errors_list') = Len(semantic_errors_list) + 1
          /\ semantic_errors_list'[Len(semantic_errors_list')].message.text \in
                {"Error de ejecucion: Operacion con tipos no numericos.",
                 "Error de ejecucion: Negacion unaria con tipo no numerico."}]_vars


\* The left or the right operand of the AND or OR on top of the stack has
\* just been evaluated, to a number.
NonBooleanOperand ==
    /\ Running
    /\ stack[Len(stack)].node.t \in {"AND", "OR"}
    /\ stack[Len(stack)].at \in {"left", "right"}
    /\ retval.k = "num"

NonBooleanOperandError(op, side) ==
    ErrorRecord("Semantico",
                Msg(IF side = "left"
                    THEN "Error de ejecucion: Operacion con operando izquierdo no booleano."
                    ELSE "Error de ejecucion: Operacion con operando derecho no booleano.",
                    << <<op>> >>, <<>>),
                NoPos, NoPos)

\* C14, as stated: y = l op r with op AND or OR, where x is an operand and
\* holds a number: whichever side x is on and whether or not the other
\* operand decides the result, the request returns a runtime error about a
\* non-boolean operand and y = False.
C14_AnyNonBooleanOperand ==
    \A l, r \in NumberOperands, op \in LogicLexemes :
        (/\ Finished
         /\ code = NumberLogicalProgram(l, op, r)
         /\ <<Var("x")>> \in {l, r}) =>
            /\ \E i \in DOMAIN all_errors :
                  all_errors[i] \in {NonBooleanOperandError(OperatorString(op), "left"),
                                     NonBooleanOperandError(OperatorString(op), "right")}
            /\ Var("y") \in DOMAIN evaluated_results
            /\ evaluated_results[Var("y")] = PyFalse

\* C14, amended: when an operand of an AND or OR has been evaluated (the
\* left one, or the right one when the left one did not decide the result)
\* and its value is not a boolean, the node returns False, not None, and
\* one runtime error naming the operator and the side is recorded.
C14_EvaluatedNonBooleanOperand ==
    [][NonBooleanOperand =>
          /\ stack' = SubSeq(stack, 1, Len(stack) - 1)
          /\ retval' = PyFalse
          /\ semantic_errors_list' =
                Append(semantic_errors_list,
                       NonBooleanOperandError(stack[Len(stack)].node.t, stack[Len(stack)].at))
          /\ symbol_table' = symbol_table
          /\ pc' = "evaluating"]_vars

\* y = 1 < 2 AND x, x holding 5.0, has returned the error about the right
\* operand and y = False
C14_Witness ==
    /\ Finished
    /\ code = NumberLogicalProgram(TrueComparison, AND_, <<Var("x")>>)
    /\ all_errors = <<NonBooleanOperandError("AND", "right")>>
    /\ Var("y") \in DOMAIN evaluated_results
    /\ evaluated_results[Var("y")] = PyFalse


\* An ('error', ...) node occurs in the node, or in the statements
RECURSIVE ErrorNodeIn(_), ErrorNodeAmong(_)
ErrorNodeIn(node) ==
    CASE node.t = "error" -> TRUE
      [] node.t \in {"None", "number", "id"} -> FALSE
      [] node.t \in {"NOT", "uminus", "assign"} -> ErrorNodeIn(node.expr)
      [] node.t = "if" -> ErrorNodeIn(node.cond) \/ ErrorNodeAmong(node.thenb)
      [] node.t = "if_else" ->
            ErrorNodeIn(node.cond) \/ ErrorNodeAmong(node.thenb) \/ ErrorNodeAmong(node.elseb)
      [] node.t = "while" -> ErrorNodeIn(node.cond) \/ ErrorNodeAmong(node.body)
      [] OTHER -> ErrorNodeIn(node.left) \/ ErrorNodeIn(node.right)

ErrorNodeAmong(stmts) == \E i \in DOMAIN stmts : ErrorNodeIn(stmts[i])

\* C15: an AST with an ('error', ...) node anywhere in it comes with a
\* semantic error recorded by the parser, so that evaluate_ast is not
\* called for it; and while evaluate_ast runs, no call in progress is for
\* an error node, and no statement list or defining expression it may yet
\* reach contains one.
C15_ErrorNodeNeverEvaluated ==
    /\ (pc \in {"parsed", "evaluating", "returned"} /\ ErrorNodeAmong(ast.stmts)) =>
          /\ \E i \in DOMAIN semantic_errors_list :
                /\ semantic_errors_list[i].line # NoPos
                /\ semantic_errors_list[i] \in Range(all_errors)
          /\ hist.static > 0
          /\ hist.calls = 0
          /\ pc # "evaluating"
    /\ pc = "evaluating" =>
          /\ \A i \in DOMAIN stack :
                /\ stack[i].node.t # "error"
                /\ ~ErrorNodeAmong(stack[i].stmts)
          /\ \A name \in DOMAIN symbol_table : ~ErrorNodeIn(symbol_table[name].value_ast)

\* x = 1 AND 2 AND 3 has returned: the error node built for 1 AND 2 is the
\* left operand of the second AND, one error is reported and nothing was
\* evaluated
C15_Witness ==
    /\ Finished
    /\ code = ExpressionProgram(1, AND_, 2, AND_, 3)
    /\ ~ast.none
    /\ ast.stmts[1].expr.t = "AND"
    /\ ast.stmts[1].expr.left.t = "error"
    /\ Len(all_errors) = 1
    /\ hist.calls = 0
    /\ DOMAIN evaluated_results = {}


\* C16, as stated: a program without statements (no text, or a comment
\* only) and a program whose IF or WHILE block is { } are parsed without a
\* syntactic error, and an AST is returned.
C16_EmptySequencesAccepted ==
    (pc \in {"parsed", "evaluating", "returned"} /\ code \in EmptySequencePrograms) =>
        /\ syntactic_errors_list = <<>>
        /\ ~ast.none


\* The errors that report the name as not declared
UndeclaredReports(name) ==
    {i \in DOMAIN semantic_errors_list :
        semantic_errors_list[i].message = UndeclaredError(name)}

\* The names the parser reported as not declared
UndeclaredNames ==
    {semantic_errors_list[i].message.strs[1] :
        i \in {j \in DOMAIN semantic_errors_list :
                  semantic_errors_list[j].message.text = "Variable no declarada."}}

\* C17: in a request, however often a name is referred to, at most one
\* 'no declarada' error is recorded for it; a name reported has an entry
\* in the symbol table from then on, and a name whose entry is the
\* placeholder of type 'unknown_error' has been reported exactly once.
C17_OneReportPerName ==
    pc \in {"parsed", "evaluating", "returned"} =>
        /\ \A name \in UndeclaredNames :
              /\ Cardinality(UndeclaredReports(name)) = 1
              /\ name \in DOMAIN symbol_table
        /\ \A name \in DOMAIN symbol_table :
              symbol_table[name] = PlaceholderEntry =>
                  Cardinality(UndeclaredReports(name)) = 1

\* u, u and u on three lines has returned: one report for u, on line 1,
\* and the placeholder entry
C17_Witness ==
    /\ Finished
    /\ code = Program(<< <<Var("u")>>, <<Var("u")>>, <<Var("u")>> >>)
    /\ ~ast.none
    /\ Len(ast.stmts) = 3
    /\ Len(semantic_errors_list) = 1
    /\ semantic_errors_list[1].message = UndeclaredError(Var("u"))
    /\ symbol_table[Var("u")] = PlaceholderEntry


\* The messages of the runtime errors about the type of a value
RuntimeTypeErrorTexts ==
    RuntimeErrorTexts \ {"Error de ejecucion: Division por cero."}

\* C18, as stated: while and after a program without lexical, syntactic or
\* static semantic error is evaluated, no runtime error about the type of
\* an operand or of a condition is recorded.
C18_StaticCheckSound ==
    (pc \in {"evaluating", "returned"} /\ hist.static = 0) =>
        \A i \in DOMAIN semantic_errors_list :
            semantic_errors_list[i].message.text \notin RuntimeTypeErrorTexts


\* A WHILE statement occurs among the statements
RECURSIVE WhileAmong(_)
WhileAmong(stmts) ==
    \E i \in DOMAIN stmts :
        CASE stmts[i].t = "while" -> TRUE
          [] stmts[i].t = "if" -> WhileAmong(stmts[i].thenb)
          [] stmts[i].t = "if_else" -> WhileAmong(stmts[i].thenb) \/ WhileAmong(stmts[i].elseb)
          [] OTHER -> FALSE

\* C19, as stated: the evaluation of a program without lexical, syntactic
\* or static semantic error and without a WHILE statement never nests its
\* evaluate_ast calls up to the recursion limit and never ends with an
\* 'Error interno'.
C19_NoInternalError ==
    (pc \in {"evaluating", "returned"} /\ hist.static = 0 /\ ~ast.none
        /\ ~WhileAmong(ast.stmts)) =>
        /\ Len(stack) < RecursionLimit
        /\ \A i \in DOMAIN semantic_errors_list : ~IsInternalError(semantic_errors_list[i])


\* C20, as stated: when a request without static error has returned, only
\* the variables that an executed assignment statement stored a value in
\* have an evaluated value and an entry in the results map; every other
\* variable of the symbol table still has evaluated_value None.
C20_OnlyExecutedAssignmentsEvaluated ==
    (Finished /\ hist.static = 0) =>
        /\ DOMAIN evaluated_results \subseteq hist.assigned
        /\ \A name \in DOMAIN symbol_table \ hist.assigned :
              IsNone(symbol_table[name].evaluated_value)


\* The 0-based offset of the character at i within its own line
OffsetInLine(text, i) == (i - 1) - (rfind(text, "\n", i - 1) + 1)

\* The errors of the request that carry a column and name their lexeme:
\* the illegal character, the token a syntactic error is near, the name
\* that is not declared
LocatedErrors ==
    SelectSeq(lexical_errors_list \o syntactic_errors_list \o semantic_errors_list,
              LAMBDA e : /\ e.column # NoPos
                         /\ e.message.text \in {"Caracter ilegal", "Error sintactico cerca de",
                                                "Variable no declarada."}
                         /\ e.message.strs # <<>>)

\* The lexeme the error names stands on the line the error gives, at the
\* offset within that line the column gives when columns count from base
ReportsOffset(e, base) ==
    LET lexeme == e.message.strs[1]
    IN \E i \in 1..Len(code) :
          /\ i + Len(lexeme) - 1 <= Len(code)
          /\ SubSeq(code, i, i + Len(lexeme) - 1) = lexeme
          /\ LineOf(code, i) = e.line
          /\ OffsetInLine(code, i) + base = e.column

\* C21, as stated: in the first request, the columns of all the error
\* records that carry one are the offsets of their lexemes within their
\* own lines, counted from one and the same base (0 or 1) whatever the
\* kind of the error and whatever the line.
C21_ColumnIsOffsetInLine ==
    (pc \in {"parsed", "evaluating", "returned"} /\ calls = 1) =>
        \E base \in {0, 1} :
            \A n \in DOMAIN LocatedErrors : ReportsOffset(LocatedErrors[n], base)


\* The names that occur in the node, or in the statements, as an
\* ('id', name) node or as the target of an ('assign', name, ...) node
RECURSIVE IdentifiersIn(_), IdentifiersAmong(_)
IdentifiersIn(node) ==
    CASE node.t = "id" -> {node.name}
      [] node.t \in {"None", "number", "list"} -> {}
      [] node.t = "assign" -> {node.name} \cup IdentifiersIn(node.expr)
      [] node.t \in {"NOT", "uminus"} -> IdentifiersIn(node.expr)
      [] node.t = "error" /\ node.op = "NOT" -> IdentifiersIn(node.expr)
      [] node.t = "if" -> IdentifiersIn(node.cond) \cup IdentifiersAmong(node.thenb)
      [] node.t = "if_else" ->
            IdentifiersIn(node.cond) \cup IdentifiersAmong(node.thenb)
                \cup IdentifiersAmong(node.elseb)
      [] node.t = "while" -> IdentifiersIn(node.cond) \cup IdentifiersAmong(node.body)
      [] OTHER -> IdentifiersIn(node.left) \cup IdentifiersIn(node.right)

IdentifiersAmong(stmts) == UNION {IdentifiersIn(stmts[i]) : i \in DOMAIN stmts}

\* The errors a missing symbol-table key would end in
MissingKeyErrors ==
    {Msg("Variable no definida durante la ejecucion.", <<name>>, <<>>) :
        name \in IdentifiersAmong(ast.stmts)}
    \cup {Msg("Error interno durante la ejecucion", << <<"KeyError">> >>, <<>>)}

\* C22: once a request has parsed its text, every name that occurs in the
\* AST as an identifier or as the target of an assignment, and every name
\* in the defining expression of a symbol-table entry, has a symbol-table
\* entry; no error says that a variable is not defined during execution,
\* no evaluation ends with a KeyError, and every call of evaluate_ast in
\* progress is for a node whose names have entries.
C22_IdentifiersHaveEntries ==
    pc \in {"parsed", "evaluating", "returned"} =>
        /\ IdentifiersAmong(ast.stmts) \subseteq DOMAIN symbol_table
        /\ \A name \in DOMAIN symbol_table :
              IdentifiersIn(symbol_table[name].value_ast) \subseteq DOMAIN symbol_table
        /\ \A i \in DOMAIN stack :
              IdentifiersIn(stack[i].node) \cup IdentifiersAmong(stack[i].stmts)
                  \subseteq DOMAIN symbol_table
        /\ \A i \in DOMAIN semantic_errors_list :
              /\ semantic_errors_list[i].message \notin MissingKeyErrors
              /\ semantic_errors_list[i].message.text
                     # "Variable no definida durante la ejecucion."
              /\ IsInternalError(semantic_errors_list[i]) =>
                     semantic_errors_list[i].message.strs # << <<"KeyError">> >>

\* A request has returned without error after executing assignments: the
\* AST names at least two variables, all with entries, and the defining
\* expression of an entry reads a variable
C22_Witness ==
    /\ Finished
    /\ all_errors = <<>>
    /\ hist.assigned # {}
    /\ Cardinality(IdentifiersAmong(ast.stmts)) >= 2
    /\ \E name \in DOMAIN symbol_table :
          IdentifiersIn(symbol_table[name].value_ast) # {}
    /\ IdentifiersAmong(ast.stmts) = DOMAIN symbol_table

====
